---- MODULE Spec2Model ----
(***************************************************************************)
(* Frame synchronisation and resource lifecycle of the render state of     *)
(* learn_gfx_rs: GfxState (gfx_state.rs), drawing::draw_frame (drawing.rs),*)
(* the event loop of main.rs, and the older HalState (hal_state.rs).       *)
(*                                                                         *)
(* The CPU side is the single control thread; draw_frame is a step up to   *)
(* each call that can block (acquire_image, wait_for_fence) and one step   *)
(* per way the rest of the call can end.  The GPU side (swapchain, queue,  *)
(* semaphores, fences) runs concurrently and is modelled by the actions    *)
(* ImageReady, GpuBegin, GpuComplete and PresentExec.  A binary semaphore  *)
(* holds at most one signal.                                               *)
(*                                                                         *)
(* Rust vectors are 0-based; a Vec is a TLA+ sequence and At(v, i) reads   *)
(* element i of the Vec.                                                   *)
(***************************************************************************)
EXTENDS Integers, Sequences, FiniteSets, TLC

\* utils.rs:25, gfx_state.rs:50, hal_state.rs:62
FRAMES_IN_FLIGHT == 3

\* Largest swapchain image count the surface may hand back (model bound).
MaxImages == 4

\* Most device calls of draw_frame that fail in one run (model bound).
MaxFailures == 1

\* Image counts create_swapchain may produce (gfx_state.rs:144).
ImageCounts == 2..MaxImages

VARIABLES
    kind,                        \* "GfxState" or "HalState": the render state type in use
    proc,                        \* the process: starting, running, unwinding, exiting, ...
    pc,                          \* position of the control thread inside render/draw_frame
    image_available,             \* draw_frame local: index of the slot's semaphores
    image_i,                     \* draw_frame local: acquired image index
    result,                      \* result of the draw_frame call in progress / just returned
    ops,                         \* device operations issued by the handler in progress
    failures,                    \* device calls of draw_frame that have failed so far
    current_frame,               \* GfxState.current_frame
    in_flight_fences,            \* Vec<Fence>: "signaled" / "unsignaled"
    render_finished_semaphores,  \* Vec<Semaphore>
    image_available_semaphores,  \* Vec<Semaphore>
    command_buffers,             \* Vec<CommandBuffer>: "ready" (initial or executable) / "pending"
    framebuffers,                \* Vec<Framebuffer>, its length
    image_views,                 \* Vec<ImageView>, its length
    descriptor_set_layouts,      \* PipelineInfo.descriptor_set_layouts, its length
    freed,                       \* HalState.freed
    destroyed,                   \* per resource kind: destroy calls made on the state's objects
    dropped,                     \* destroyed counts of the state the last handler dropped
    images,                      \* swapchain images: available / acquired / queued
    acquire_sem,                 \* per image: the semaphore its acquire has yet to signal
    queue,                       \* submissions on the command queue, oldest first
    presents,                    \* present requests on the queue, oldest first
    memory_types,                \* adapter: per memory type id, whether it is CPU_VISIBLE
    buffer_info,                 \* result of BufferInfo::new: "none" before the call
    requirements,                \* BufferInfo.requirements: size and type_mask
    memory_type_id,              \* BufferInfo::new local: the memory type selected
    requested,                   \* byte length BufferInfo::new asked create_buffer for
    live,                        \* buffer / memory handles the device holds for this buffer
    mapped_memory,               \* the memory range 0..requirements.size, byte by byte
    uploads,                     \* load_data calls made on the buffer
    data,                        \* the slice given to the last load_data call
    load_result,                 \* result of the last load_data call
    adapters,                    \* instance.enumerate_adapters(): per adapter its queue families
    adapter,                     \* GfxState::new local: index of the adapter selected
    queue_family,                \* GfxState::new local: id of the queue family selected
    opened                       \* how device selection in GfxState::new ended: "none" before

cpuVars == <<kind, proc, pc, image_available, image_i, result, ops, failures>>
gfxVars == <<current_frame, in_flight_fences, render_finished_semaphores,
             image_available_semaphores, command_buffers, framebuffers, image_views,
             descriptor_set_layouts, freed, destroyed, dropped>>
gpuVars == <<images, acquire_sem, queue, presents>>
bufVars == <<memory_types, buffer_info, requirements, memory_type_id, requested, live,
             mapped_memory, uploads, data, load_result>>
selVars == <<adapters, adapter, queue_family, opened>>
vars == <<cpuVars, gfxVars, gpuVars, bufVars, selVars>>

----------------------------------------------------------------------------
\* Helpers

At(v, i) == v[i + 1]

InBounds(v, i) == i >= 0 /\ i < Len(v)

Put(v, i, x) == [v EXCEPT ![i + 1] = x]

Fill(n, x) == [k \in 1..n |-> x]

\* Put when the Vec still has element i (a drained Vec has none).
PutIf(v, i, x) == IF InBounds(v, i) THEN Put(v, i, x) ELSE v

NoError == "Ok"

\* No semaphore: the acquire of the image has signaled, or there was none.
NoSemaphore == -1

\* Resource kinds whose handles the render state owns.
VecKinds == {"fence", "render_finished_semaphore", "image_available_semaphore",
             "framebuffer", "image_view", "descriptor_set_layout"}
PtrKinds == {"vertex_buffer", "vertex_memory", "index_buffer", "index_memory",
             "pipeline_layout", "graphics_pipeline", "command_pool", "render_pass",
             "swapchain"}
Kinds == VecKinds \cup PtrKinds

NoneDestroyed == [k \in Kinds |-> 0]

\* One device operation in the log: its name and up to two indices.
Op(name, a, b) == <<name, a, b>>

\* n log entries name(0), ..., name(n-1).
OpsEach(name, n) == [k \in 1..n |-> Op(name, k - 1, 0)]

VERTICES == 0
INDICES == 1

----------------------------------------------------------------------------
\* Construction: GfxState::new / HalState::init with a swapchain of n images.

\* A construction whose fences start unsignaled (create_fence(false)).
full_flight_unsignaled(x) == Fill(FRAMES_IN_FLIGHT, "unsignaled")

\* Fences are created signaled (create_fence(true)), semaphores unsignaled.
full_flight(x) == Fill(FRAMES_IN_FLIGHT, x)

\* Command buffers allocated one per frame in flight instead.
allocate_full_flight(fbs) == Fill(FRAMES_IN_FLIGHT, "ready")

\* gfx_state.rs:255-259: one primary command buffer per framebuffer.
allocate_per_framebuffer(fbs) == Fill(fbs, "ready")

\* The backbuffer has n images; one image view is made per backbuffer image
\* (gfx_state.rs:186-208) and one framebuffer per image view (212-230).
NewState(n) ==
    /\ images' = Fill(n, "available")
    /\ image_views' = Len(images')
    /\ framebuffers' = image_views'
    /\ command_buffers' = allocate_per_framebuffer(framebuffers')
    /\ current_frame' = 0
    /\ in_flight_fences' = full_flight("signaled")
    /\ render_finished_semaphores' = full_flight("unsignaled")
    /\ image_available_semaphores' = full_flight("unsignaled")
    /\ descriptor_set_layouts' = 1
    /\ freed' = FALSE
    /\ destroyed' = NoneDestroyed
    /\ acquire_sem' = Fill(n, NoSemaphore)
    /\ queue' = <<>>
    /\ presents' = <<>>

----------------------------------------------------------------------------
\* Release: GfxState::free, HalState::free.

\* device.wait_idle() returns once the queue has no work left.
DeviceIdle == queue = <<>> /\ presents = <<>>

\* Current length of the Vec holding each drained kind.
VecLen == [k \in VecKinds |->
    CASE k = "fence" -> Len(in_flight_fences)
      [] k = "render_finished_semaphore" -> Len(render_finished_semaphores)
      [] k = "image_available_semaphore" -> Len(image_available_semaphores)
      [] k = "framebuffer" -> framebuffers
      [] k = "image_view" -> image_views
      [] k = "descriptor_set_layout" -> descriptor_set_layouts]

Drained == [k \in VecKinds |-> 0]

\* Kinds GfxState::free destroys through ptr::read of a ManuallyDrop field.
GfxPtrKinds == PtrKinds

\* HalState::free never frees the vertex and index buffers.
HalPtrKinds == {"command_pool", "render_pass", "swapchain", "pipeline_layout",
                "graphics_pipeline"}

\* Destroy counts after one run of the body of free: a Vec is drained, so its
\* elements are destroyed only while it is non-empty; a ManuallyDrop field is
\* read out and destroyed on every run.
FreeCounts(d, len, ptrKinds) ==
    [k \in Kinds |->
        IF k \in VecKinds THEN (IF len[k] > 0 THEN d[k] + 1 ELSE d[k])
        ELSE IF k \in ptrKinds THEN d[k] + 1 ELSE d[k]]

\* A release of the memory ahead of the buffer bound to it.
free_ops_memory_first(b) == <<Op("free_memory", b, 0), Op("destroy_buffer", b, 0)>>

\* buffer_info.rs:82-87: destroy_buffer, then free_memory.
BufferInfo_free_ops(b) == <<Op("destroy_buffer", b, 0), Op("free_memory", b, 0)>>

PipelineInfo_free_ops(len) ==
    OpsEach("destroy_descriptor_set_layout", len["descriptor_set_layout"])
        \o <<Op("destroy_pipeline_layout", 0, 0), Op("destroy_graphics_pipeline", 0, 0)>>

\* A release that destroys the swapchain before anything else, idle wait included.
free_ops_swapchain_first(len) ==
    <<Op("destroy_swapchain", 0, 0), Op("wait_idle", 0, 0)>>
        \o OpsEach("destroy_image_view", len["image_view"])

GfxState_free_ops(len) ==
    <<Op("wait_idle", 0, 0)>>
        \o OpsEach("destroy_fence", len["fence"])
        \o OpsEach("destroy_render_finished", len["render_finished_semaphore"])
        \o OpsEach("destroy_image_available", len["image_available_semaphore"])
        \o OpsEach("destroy_framebuffer", len["framebuffer"])
        \o OpsEach("destroy_image_view", len["image_view"])
        \o BufferInfo_free_ops(VERTICES)
        \o BufferInfo_free_ops(INDICES)
        \o PipelineInfo_free_ops(len)
        \o <<Op("destroy_command_pool", 0, 0), Op("destroy_render_pass", 0, 0),
             Op("destroy_swapchain", 0, 0)>>

HalState_free_ops(len) ==
    <<Op("wait_idle", 0, 0)>>
        \o OpsEach("destroy_fence", len["fence"])
        \o OpsEach("destroy_render_finished", len["render_finished_semaphore"])
        \o OpsEach("destroy_image_available", len["image_available_semaphore"])
        \o OpsEach("destroy_framebuffer", len["framebuffer"])
        \o OpsEach("destroy_image_view", len["image_view"])
        \o OpsEach("destroy_descriptor_set_layout", len["descriptor_set_layout"])
        \o <<Op("destroy_command_pool", 0, 0), Op("destroy_render_pass", 0, 0),
             Op("destroy_swapchain", 0, 0), Op("destroy_pipeline_layout", 0, 0),
             Op("destroy_graphics_pipeline", 0, 0)>>

\* What one call of free logs and leaves in `destroyed`, given the Vec lengths
\* and the freed flag at the call.
FreeOps(len, wasFreed) ==
    IF kind = "HalState"
    THEN (IF wasFreed THEN <<>> ELSE HalState_free_ops(len))
    ELSE GfxState_free_ops(len)

\* A release that runs its body whatever the freed flag says.
FreeDestroyed_unguarded(d, len, wasFreed) ==
    FreeCounts(d, len, IF kind = "HalState" THEN HalPtrKinds ELSE GfxPtrKinds)

FreeDestroyed(d, len, wasFreed) ==
    IF kind = "HalState"
    THEN (IF wasFreed THEN d ELSE FreeCounts(d, len, HalPtrKinds))
    ELSE FreeCounts(d, len, GfxPtrKinds)

\* free blocks in wait_idle unless HalState returns early on its flag.
FreeCanRun == (kind = "HalState" /\ freed) \/ DeviceIdle

\* The fields free leaves behind: the drained Vecs are empty.
FreeFields ==
    /\ in_flight_fences' = <<>>
    /\ render_finished_semaphores' = <<>>
    /\ image_available_semaphores' = <<>>
    /\ framebuffers' = 0
    /\ image_views' = 0
    /\ descriptor_set_layouts' = 0
    /\ freed' = (kind = "HalState")
    /\ UNCHANGED <<current_frame, command_buffers>>

----------------------------------------------------------------------------
\* draw_frame: drawing::draw_frame (drawing.rs:14), GfxState::draw_frame
\* (gfx_state.rs:286) and HalState::draw_frame (hal_state.rs:461).
\*
\* The call blocks in acquire_image and in wait_for_fence; everything after the
\* fence wait runs without blocking and is one step per way it can end.

locals == <<image_available, image_i>>
syncVars == <<in_flight_fences, render_finished_semaphores, image_available_semaphores>>
restGfx == <<framebuffers, image_views, descriptor_set_layouts, freed, destroyed, dropped>>

InFrame(at) == proc = "running" /\ pc = at

\* A call that notes the error and starts the frame over.
RetryFrame(r) == pc' = "acquire" /\ result' = r

\* `?` on an Err: the call returns the error string.
Return(r) == pc' = "returned" /\ result' = r

\* An out-of-range Vec index panics; the panic unwinds out of the event loop.
Panic == pc' = "panic" /\ proc' = "unwinding" /\ result' = "panic: index out of bounds"

Log(op) == ops' = Append(ops, op)

\* A device call returns an error.
Fails == failures < MaxFailures /\ failures' = failures + 1

\* An advance that never wraps around.
advance_without_wrap(frame) == frame + 1

\* drawing.rs:21: current_frame = (current_frame + 1) % FRAMES_IN_FLIGHT
advance(frame) == (frame + 1) % FRAMES_IN_FLIGHT

\* hal_state.rs:462-470, drawing.rs:19-21: the caller enters draw_frame; the freed
\* guard (HalState only), the two semaphore lookups, the advance of current_frame.
draw_frame_begin ==
    /\ InFrame("idle")
    /\ IF kind = "HalState" /\ freed
       THEN /\ Return("Use of freed Gfx state")
            /\ ops' = <<>>
            /\ UNCHANGED <<proc, locals, current_frame>>
       ELSE IF ~InBounds(image_available_semaphores, current_frame)
       THEN /\ Panic
            /\ ops' = <<Op("index_image_available_semaphores", current_frame, 0)>>
            /\ UNCHANGED <<locals, current_frame>>
       ELSE /\ image_available' = current_frame
            /\ current_frame' = advance(current_frame)
            /\ pc' = "acquire"
            /\ ops' = <<>>
            /\ UNCHANGED <<proc, image_i, result>>
    /\ UNCHANGED <<failures, kind, syncVars, command_buffers, restGfx, gpuVars>>
    /\ UNCHANGED <<bufVars, selVars>>

\* drawing.rs:23-31: acquire_image returns index i at once and signals the slot's
\* semaphore when the presentation engine is done with the image; the fence of
\* index i is then looked up.
acquire_image_ok(i) ==
    /\ InFrame("acquire")
    /\ InBounds(images, i)
    /\ At(images, i) = "available"
    /\ images' = Put(images, i, "acquired")
    /\ acquire_sem' = Put(acquire_sem, i, image_available)
    /\ image_i' = i
    /\ IF InBounds(in_flight_fences, i)
       THEN /\ pc' = "wait"
            /\ Log(Op("acquire_image", image_available, i))
            /\ UNCHANGED <<proc, result>>
       ELSE /\ Panic
            /\ ops' = ops \o <<Op("acquire_image", image_available, i),
                               Op("index_in_flight_fences", i, 0)>>
    /\ UNCHANGED <<failures, kind, image_available, gfxVars, queue, presents>>
    /\ UNCHANGED <<bufVars, selVars>>

\* drawing.rs:23-29: acquire_image returns (i, Some(Suboptimal)); the second
\* element is bound to _suboptimal and not looked at (HalState prints a line,
\* hal_state.rs:479-481), and the call goes on as after a plain Ok.
acquire_image_suboptimal(i) ==
    /\ InFrame("acquire")
    /\ InBounds(images, i)
    /\ At(images, i) = "available"
    /\ images' = Put(images, i, "acquired")
    /\ acquire_sem' = Put(acquire_sem, i, image_available)
    /\ image_i' = i
    /\ IF InBounds(in_flight_fences, i)
       THEN /\ pc' = "wait"
            /\ Log(Op("acquire_image_suboptimal", image_available, i))
            /\ UNCHANGED <<proc, result>>
       ELSE /\ Panic
            /\ ops' = ops \o <<Op("acquire_image_suboptimal", image_available, i),
                               Op("index_in_flight_fences", i, 0)>>
    /\ UNCHANGED <<failures, kind, image_available, gfxVars, queue, presents>>
    /\ UNCHANGED <<bufVars, selVars>>

acquire_image_err ==
    /\ InFrame("acquire")
    /\ Fails
    /\ Return("Failed to acquire an image from the swapchain")
    /\ Log(Op("acquire_image_failed", image_available, 0))
    /\ UNCHANGED <<kind, proc, locals, gfxVars, gpuVars>>
    /\ UNCHANGED <<bufVars, selVars>>

\* A draw_frame that goes on without looking at the fence.
FenceNotAwaited == TRUE

\* drawing.rs:32-33: wait_for_fence blocks (timeout u64::MAX) until the fence of
\* the acquired image is signaled.
FenceSignaled == At(in_flight_fences, image_i) = "signaled"

wait_for_fence_err ==
    /\ InFrame("wait")
    /\ Fails
    /\ Return("Failed to wait on the fence")
    /\ Log(Op("wait_for_fence_failed", image_i, 0))
    /\ UNCHANGED <<kind, proc, locals, gfxVars, gpuVars>>
    /\ UNCHANGED <<bufVars, selVars>>

wait_ops == <<Op("wait_for_fence", image_i, 0)>>

\* drawing.rs:34
reset_ops == <<Op("reset_fence", image_i, 0)>>

\* A reset that takes every fence of the state with it.
AllFencesReset == Fill(Len(in_flight_fences), "unsignaled")

FenceReset == Put(in_flight_fences, image_i, "unsignaled")

reset_fence_err ==
    /\ InFrame("wait")
    /\ FenceSignaled
    /\ Fails
    /\ Return("Failed to reset the fence")
    /\ ops' = ops \o wait_ops \o <<Op("reset_fence_failed", image_i, 0)>>
    /\ UNCHANGED <<kind, proc, locals, gfxVars, gpuVars>>
    /\ UNCHANGED <<bufVars, selVars>>

\* An upload that returns with the memory still mapped.
load_data_ops_left_mapped(b, mapped) ==
    IF mapped
    THEN <<Op("map_memory", b, 0), Op("copy", b, 0)>>
    ELSE <<Op("map_memory_failed", b, 0)>>

\* BufferInfo::load_data (buffer_info.rs:63-80): map, copy, unmap; a failed map
\* returns before the copy.
load_data_ops(b, mapped) ==
    IF mapped
    THEN <<Op("map_memory", b, 0), Op("copy", b, 0), Op("unmap_memory", b, 0)>>
    ELSE <<Op("map_memory_failed", b, 0)>>

\* pipeline_info.rs:42-48, hal_state.rs:398-401: create_pipeline_layout is
\* given an empty Vec of (ShaderStageFlags, Range<u32>): the layout declares
\* no push-constant range.
push_constant_ranges == <<>>

\* drawing.rs:56-64: push_graphics_constants(layout, VERTEX, 0, &[x, y]).
push_stage == "VERTEX"
push_offset == 0
push_words == 2

\* A recording that is submitted without finish.
record_ops_unfinished ==
    <<Op("begin_primary", image_i, 0), Op("bind_graphics_pipeline", image_i, 0),
      Op("bind_vertex_buffers", image_i, 0),
      Op("bind_index_buffer", image_i, 1),
      Op("push_graphics_constants", image_i, 2),
      Op("begin_render_pass", image_i, image_i), Op("draw_indexed", 6, 1),
      Op("end_render_pass", image_i, 0)>>

\* drawing.rs:41-89: the command buffer of the acquired image is re-recorded.
record_ops ==
    <<Op("begin_primary", image_i, 0), Op("bind_graphics_pipeline", image_i, 0),
      Op("bind_vertex_buffers", image_i, VERTICES),
      Op("bind_index_buffer", image_i, INDICES),
      Op("push_graphics_constants", image_i, push_words),
      Op("begin_render_pass", image_i, image_i), Op("draw_indexed", 6, 1),
      Op("end_render_pass", image_i, 0), Op("finish", image_i, 0)>>

\* drawing.rs:91-105: submit waits on image_available, signals render_finished
\* (same slot) and the fence of the acquired image.
Submission(i, sem) ==
    [cb |-> i, wait |-> sem, signal |-> sem, fence |-> i, begun |-> FALSE]

submit_ops == <<Op("submit", image_i, image_available)>>

\* drawing.rs:102-112: present waits on render_finished of the slot.
PresentRequest(i, sem) == [image |-> i, wait |-> sem]

\* drawing.rs:36-39 in GfxState: a failed map of either buffer returns the error
\* with the fence already reset.
load_data_err(b) ==
    /\ InFrame("wait")
    /\ kind = "GfxState"
    /\ FenceSignaled
    /\ Fails
    /\ in_flight_fences' = FenceReset
    /\ Return("Failed to memory map buffer")
    /\ ops' = ops \o wait_ops \o reset_ops
                  \o (IF b = INDICES THEN load_data_ops(VERTICES, TRUE) ELSE <<>>)
                  \o load_data_ops(b, FALSE)
    /\ UNCHANGED <<kind, proc, locals, current_frame, render_finished_semaphores,
                   image_available_semaphores, command_buffers, restGfx, gpuVars>>
    /\ UNCHANGED <<bufVars, selVars>>

load_vertices_err == load_data_err(VERTICES)

load_indices_err == load_data_err(INDICES)

\* Everything from the fence wait to the submit (drawing.rs:32-105), with both
\* uploads mapped.
RecordedAndSubmitted ==
    /\ InFrame("wait")
    /\ FenceSignaled
    /\ in_flight_fences' = FenceReset
    /\ command_buffers' = Put(command_buffers, image_i, "pending")
    /\ queue' = Append(queue, Submission(image_i, image_available))
    /\ UNCHANGED <<kind, proc, locals, current_frame, render_finished_semaphores,
                   image_available_semaphores, restGfx, acquire_sem>>
    /\ UNCHANGED <<bufVars, selVars>>

\* A frame that records the command buffer ahead of the uploads.
frame_ops_record_first ==
    wait_ops \o reset_ops \o record_ops
        \o load_data_ops(VERTICES, TRUE) \o load_data_ops(INDICES, TRUE) \o submit_ops

frame_ops ==
    wait_ops \o reset_ops \o load_data_ops(VERTICES, TRUE) \o load_data_ops(INDICES, TRUE)
        \o record_ops \o submit_ops

\* A present that reports every outcome but a plain Ok as the frame's error.
present_result_strict(outcome) ==
    IF outcome = "Ok" THEN NoError ELSE "Failed to present into the swapchain"

\* drawing.rs:110-112: .map(|_| ()) discards the Option<Suboptimal> of an Ok,
\* .map_err replaces the error by the message.
present_result(outcome) ==
    IF outcome = "Err" THEN "Failed to present into the swapchain" ELSE NoError

\* The frame runs to the end and present returns Ok.
present_ok ==
    /\ RecordedAndSubmitted
    /\ presents' = Append(presents, PresentRequest(image_i, image_available))
    /\ images' = Put(images, image_i, "queued")
    /\ Return(NoError)
    /\ ops' = ops \o frame_ops \o <<Op("present", image_i, image_available)>>
    /\ UNCHANGED failures

\* The frame runs to the end and present returns Ok(Some(Suboptimal)): the
\* request is queued like any other.
present_suboptimal ==
    /\ RecordedAndSubmitted
    /\ presents' = Append(presents, PresentRequest(image_i, image_available))
    /\ images' = Put(images, image_i, "queued")
    /\ Return(present_result("Suboptimal"))
    /\ ops' = ops \o frame_ops \o <<Op("present_suboptimal", image_i, image_available)>>
    /\ UNCHANGED failures

\* The present request is rejected (out of memory): nothing is queued for it.
present_err ==
    /\ RecordedAndSubmitted
    /\ Fails
    /\ Return("Failed to present into the swapchain")
    /\ ops' = ops \o frame_ops \o <<Op("present_failed", image_i, image_available)>>
    /\ UNCHANGED <<images, presents>>

\* hal_state.rs:489-490: HalState calls send_buffer_data (hal_state.rs:677-694)
\* as a statement and drops its Result; with the map of buffer b failed the
\* frame goes on to record, submit and present.
send_buffer_data_err(b) ==
    /\ kind = "HalState"
    /\ RecordedAndSubmitted
    /\ Fails
    /\ presents' = Append(presents, PresentRequest(image_i, image_available))
    /\ images' = Put(images, image_i, "queued")
    /\ Return(NoError)
    /\ ops' = ops \o wait_ops \o reset_ops
                  \o load_data_ops(VERTICES, b # VERTICES)
                  \o load_data_ops(INDICES, b # INDICES)
                  \o record_ops \o submit_ops
                  \o <<Op("present", image_i, image_available)>>

\* main.rs:100-104 and 56-59: render prints an Err, the handler returns and the
\* event loop waits for the next event.
event_handled ==
    /\ proc = "running"
    /\ pc \in {"returned", "resized"}
    /\ pc' = "idle"
    /\ image_available' = 0
    /\ image_i' = 0
    /\ result' = "none"
    /\ ops' = <<>>
    /\ dropped' = NoneDestroyed
    /\ UNCHANGED <<failures, kind, proc, current_frame, syncVars, command_buffers,
                   framebuffers, image_views, descriptor_set_layouts, freed, destroyed,
                   gpuVars>>
    /\ UNCHANGED <<bufVars, selVars>>

----------------------------------------------------------------------------
\* The device side.  Work completes at arbitrary later times; signal operations
\* of the one queue happen in submission order.

\* The presentation engine is done with an image handed out by acquire_image
\* (drawing.rs:26): the semaphore given to that acquire is signaled.
ImageReady(i) ==
    /\ InBounds(acquire_sem, i)
    /\ At(acquire_sem, i) # NoSemaphore
    /\ image_available_semaphores' =
           PutIf(image_available_semaphores, At(acquire_sem, i), "signaled")
    /\ acquire_sem' = Put(acquire_sem, i, NoSemaphore)
    /\ UNCHANGED <<cpuVars, current_frame, in_flight_fences, render_finished_semaphores,
                   command_buffers, restGfx, images, queue, presents>>
    /\ UNCHANGED <<bufVars, selVars>>

\* Index (1-based) of the oldest submission that has not begun, 0 when none.
FirstWaiting ==
    IF \E k \in 1..Len(queue) : ~queue[k].begun
    THEN CHOOSE k \in 1..Len(queue) :
             ~queue[k].begun /\ \A j \in 1..(k - 1) : queue[j].begun
    ELSE 0

\* A submission starts executing once its wait semaphore is signaled
\* (wait_semaphores, drawing.rs:92-93); the wait unsignals the semaphore.
GpuBegin ==
    /\ FirstWaiting > 0
    /\ LET s == queue[FirstWaiting] IN
        /\ InBounds(image_available_semaphores, s.wait)
        /\ At(image_available_semaphores, s.wait) = "signaled"
        /\ image_available_semaphores' =
               Put(image_available_semaphores, s.wait, "unsignaled")
        /\ queue' = [queue EXCEPT ![FirstWaiting].begun = TRUE]
    /\ UNCHANGED <<cpuVars, current_frame, in_flight_fences, render_finished_semaphores,
                   command_buffers, restGfx, images, acquire_sem, presents>>
    /\ UNCHANGED <<bufVars, selVars>>

\* The oldest submission finishes: it signals its semaphore and its fence
\* (signal_semaphores and Some(flight_fence), drawing.rs:94, 105).
GpuComplete ==
    /\ queue # <<>>
    /\ Head(queue).begun
    /\ LET s == Head(queue) IN
        /\ render_finished_semaphores' =
               PutIf(render_finished_semaphores, s.signal, "signaled")
        /\ in_flight_fences' = PutIf(in_flight_fences, s.fence, "signaled")
        /\ command_buffers' = Put(command_buffers, s.cb, "ready")
    /\ queue' = Tail(queue)
    /\ UNCHANGED <<cpuVars, current_frame, image_available_semaphores, restGfx,
                   images, acquire_sem, presents>>
    /\ UNCHANGED <<bufVars, selVars>>

\* The oldest present request executes once its wait semaphore is signaled
\* (present_wait_semaphores, drawing.rs:102, 108); the image goes back to the
\* presentation engine.  Requests of one queue are performed in order.
PresentExec ==
    /\ presents # <<>>
    /\ InBounds(render_finished_semaphores, Head(presents).wait)
    /\ At(render_finished_semaphores, Head(presents).wait) = "signaled"
    /\ render_finished_semaphores' =
           Put(render_finished_semaphores, Head(presents).wait, "unsignaled")
    /\ images' = Put(images, Head(presents).image, "available")
    /\ presents' = Tail(presents)
    /\ UNCHANGED <<cpuVars, current_frame, in_flight_fences, image_available_semaphores,
                   command_buffers, restGfx, acquire_sem, queue>>
    /\ UNCHANGED <<bufVars, selVars>>

----------------------------------------------------------------------------
\* One BufferInfo (buffer_info.rs; HalState::create_buffer and send_buffer_data,
\* hal_state.rs:639-694, are the same code): construction from a data slice and
\* uploads into its memory.  The specifications of the frame loop log the
\* uploads in ops and leave the contents of the buffer aside; SpecBuffer
\* follows one buffer on its own.

\* Memory types of the adapter.
MaxTypes == 2

\* Elements in a data slice.
MaxLen == 2

\* load_data calls on one buffer.
MaxUploads == 2

\* std::mem::size_of::<T>() for T = u16, the element type of QUAD_INDICES.
size_of == 2

\* Element values: one with a low byte only, one with a high byte only.
Elements == {1, 256}

\* Alignments get_buffer_requirements may round the size up to.
Alignments == {1, 4}

\* A byte of device memory that nothing has written yet.
Uninit == -1

NoMemoryType == -1

DataSlices == UNION {[1..n -> Elements] : n \in 1..MaxLen}

MemoryTypes == UNION {[1..n -> BOOLEAN] : n \in 0..MaxTypes}

TypeMasks == 0..(2^MaxTypes - 1)

\* The number of elements in place of the number of bytes.
array_len(array) == Len(array)

\* buffer_info.rs:90-92
array_size(array) == Len(array) * size_of

\* data.as_ptr() as *const u8 (buffer_info.rs:72): the elements seen as bytes,
\* low byte first on the little-endian targets the program builds for.
RECURSIVE as_bytes(_)
as_bytes(array) ==
    IF array = <<>> THEN <<>>
    ELSE <<Head(array) % 256, Head(array) \div 256>> \o as_bytes(Tail(array))

\* requirements.type_mask & (1 << id) != 0 (buffer_info.rs:42)
type_mask_bit(mask, id) == (mask \div 2^id) % 2 = 1

\* iter().enumerate().find(..) from index id on (buffer_info.rs:35-45).
RECURSIVE find_from(_, _, _)
find_from(id, mask, types) ==
    IF id >= Len(types) THEN NoMemoryType
    ELSE IF type_mask_bit(mask, id) /\ At(types, id) THEN id
    ELSE find_from(id + 1, mask, types)

\* The first CPU-visible type whatever the mask says.
find_cpu_visible(mask, types) == find_from(0, 2^MaxTypes - 1, types)

\* buffer_info.rs:35-46: the first id whose mask bit is set and that is
\* CPU_VISIBLE, NoMemoryType for None.
find_memory_type(mask, types) == find_from(0, mask, types)

\* A size rounded down to the alignment.
aligned_down(bytes, a) == (bytes \div a) * a

\* The size get_buffer_requirements reports for a buffer of the given byte
\* length: at least that length, a multiple of the alignment.
aligned(bytes, a) == ((bytes + a - 1) \div a) * a

Requirements(d) ==
    {[size |-> aligned(array_size(d), a), type_mask |-> m] : a \in Alignments, m \in TypeMasks}

\* std::ptr::copy(src, dst, count) (buffer_info.rs:71-75) as the n-th upload:
\* count bytes from the start of dst are replaced, the rest stay.
copy(src, dst, count, n) ==
    [k \in 1..Len(dst) |-> IF k <= count THEN [val |-> src[k], by |-> n] ELSE dst[k]]

mainVars == <<cpuVars, gfxVars, gpuVars>>

\* Before BufferInfo::new, on an adapter with the given memory types.
BufferStart(types) ==
    /\ memory_types = types
    /\ buffer_info = "none"
    /\ requirements = [size |-> 0, type_mask |-> 0]
    /\ memory_type_id = NoMemoryType
    /\ requested = 0
    /\ live = {}
    /\ mapped_memory = <<>>
    /\ uploads = 0
    /\ data = <<>>
    /\ load_result = "none"

\* No buffer is followed.
NoBuffer == BufferStart(<<>>)

\* buffer_info.rs:27-28: create_buffer fails; nothing exists yet.
create_buffer_err(d) ==
    /\ buffer_info = "none"
    /\ requested' = array_size(d)
    /\ buffer_info' = "Failed to create a buffer for the vertices"
    /\ UNCHANGED <<memory_types, requirements, memory_type_id, live, mapped_memory, uploads,
                   data, load_result, mainVars, selVars>>

\* buffer_info.rs:27-46: the buffer is created, no memory type matches, and
\* `?` returns; the buffer handle has no Drop and destroy_buffer is not called.
memory_type_err(d, req) ==
    /\ buffer_info = "none"
    /\ find_memory_type(req.type_mask, memory_types) = NoMemoryType
    /\ requested' = array_size(d)
    /\ requirements' = req
    /\ live' = {"buffer"}
    /\ buffer_info' = "Failed to find a memory type to support the vertex buffer"
    /\ UNCHANGED <<memory_types, memory_type_id, mapped_memory, uploads, data, load_result,
                   mainVars, selVars>>

\* buffer_info.rs:27-50: allocate_memory fails and `?` returns.
allocate_memory_err(d, req) ==
    /\ buffer_info = "none"
    /\ find_memory_type(req.type_mask, memory_types) # NoMemoryType
    /\ requested' = array_size(d)
    /\ requirements' = req
    /\ memory_type_id' = find_memory_type(req.type_mask, memory_types)
    /\ live' = {"buffer"}
    /\ buffer_info' = "Failed to allocate vertex buffer memory"
    /\ UNCHANGED <<memory_types, mapped_memory, uploads, data, load_result, mainVars, selVars>>

\* buffer_info.rs:27-54: bind_buffer_memory fails and `?` returns.
bind_buffer_memory_err(d, req) ==
    /\ buffer_info = "none"
    /\ find_memory_type(req.type_mask, memory_types) # NoMemoryType
    /\ requested' = array_size(d)
    /\ requirements' = req
    /\ memory_type_id' = find_memory_type(req.type_mask, memory_types)
    /\ live' = {"buffer", "memory"}
    /\ mapped_memory' = Fill(req.size, [val |-> Uninit, by |-> 0])
    /\ buffer_info' = "Failed to bind the buffer memory"
    /\ UNCHANGED <<memory_types, uploads, data, load_result, mainVars, selVars>>

\* buffer_info.rs:21-61: every step succeeds.
BufferInfo_new(d, req) ==
    /\ buffer_info = "none"
    /\ find_memory_type(req.type_mask, memory_types) # NoMemoryType
    /\ requested' = array_size(d)
    /\ requirements' = req
    /\ memory_type_id' = find_memory_type(req.type_mask, memory_types)
    /\ live' = {"buffer", "memory"}
    /\ mapped_memory' = Fill(req.size, [val |-> Uninit, by |-> 0])
    /\ buffer_info' = NoError
    /\ UNCHANGED <<memory_types, uploads, data, load_result, mainVars, selVars>>

\* A load_data call the buffer can take: the slice fits the mapped range.
CanLoad(d) ==
    /\ buffer_info = NoError
    /\ uploads < MaxUploads
    /\ load_result # "fault"
    /\ array_size(d) <= requirements.size

\* buffer_info.rs:63-80: map, copy array_size(data) bytes, unmap, Ok.
BufferInfo_load_data(d) ==
    /\ CanLoad(d)
    /\ uploads' = uploads + 1
    /\ data' = d
    /\ mapped_memory' = copy(as_bytes(d), mapped_memory, array_size(d), uploads + 1)
    /\ load_result' = NoError
    /\ UNCHANGED <<memory_types, buffer_info, requirements, memory_type_id, requested,
                   live, mainVars, selVars>>

\* buffer_info.rs:63-80 for a slice longer than the mapped range: ptr::copy
\* writes array_size(data) bytes from the start of a mapping of
\* requirements.size bytes.  The bytes past the range land in whatever follows
\* the mapping, and the call returns Ok, or the write faults and the process
\* ends.
load_data_out_of_range(d, fault) ==
    /\ buffer_info = NoError
    /\ uploads < MaxUploads
    /\ load_result # "fault"
    /\ array_size(d) > requirements.size
    /\ uploads' = uploads + 1
    /\ data' = d
    /\ mapped_memory' = copy(as_bytes(d), mapped_memory, array_size(d), uploads + 1)
    /\ load_result' = IF fault THEN "fault" ELSE NoError
    /\ UNCHANGED <<memory_types, buffer_info, requirements, memory_type_id, requested,
                   live, mainVars, selVars>>

\* buffer_info.rs:64-68: map_memory fails and `?` returns before the copy.
map_memory_err(d) ==
    /\ CanLoad(d)
    /\ uploads' = uploads + 1
    /\ data' = d
    /\ load_result' = "Failed to memory map buffer"
    /\ UNCHANGED <<memory_types, buffer_info, requirements, memory_type_id, requested,
                   live, mapped_memory, mainVars, selVars>>

----------------------------------------------------------------------------
\* Device selection in GfxState::new (gfx_state.rs:88-131): the adapter, its
\* queue family, the logical device and the queue group.  The specifications
\* of the frame loop take a construction as one step that succeeds or fails;
\* SpecSelect follows the selection on its own, for any list of adapters.

\* Adapters the instance enumerates.
MaxAdapters == 2

\* Queue families of one adapter.
MaxFamilies == 2

\* QueueType values of a family, one that supports graphics and one that does not.
QueueTypes == {"Graphics", "Compute"}

\* A queue family: its type and whether the surface can be presented to from it.
QueueFamilies == [queue_type : QueueTypes, present : BOOLEAN]

Adapters == UNION {[1..n -> QueueFamilies] : n \in 0..MaxFamilies}

AdapterLists == UNION {[1..n -> Adapters] : n \in 0..MaxAdapters}

NoAdapter == -1

NoQueueFamily == -1

\* QueueType::supports_graphics: true for General and Graphics.
supports_graphics(queue_type) == queue_type \in {"General", "Graphics"}

\* gfx_state.rs:92-94, 102: the closure both searches use.
graphics_and_present(qf) == supports_graphics(qf.queue_type) /\ qf.present

\* The first element of fams from index id on that satisfies the closure.
RECURSIVE find_family_from(_, _)
find_family_from(id, fams) ==
    IF id >= Len(fams) THEN NoQueueFamily
    ELSE IF graphics_and_present(At(fams, id)) THEN id
    ELSE find_family_from(id + 1, fams)

\* A search for the first family that supports graphics, presentable or not.
RECURSIVE find_graphics_family(_)
find_graphics_family(fams) ==
    IF fams = <<>> THEN NoQueueFamily
    ELSE IF supports_graphics(Head(fams).queue_type) THEN 0
    ELSE LET rest == find_graphics_family(Tail(fams))
         IN  IF rest = NoQueueFamily THEN NoQueueFamily ELSE rest + 1

\* gfx_state.rs:99-103: queue_families.iter().find(..)
find_queue_family(fams) == find_family_from(0, fams)

\* gfx_state.rs:88-96: enumerate_adapters().into_iter().find(|a| any(..)) from
\* index id on.
RECURSIVE find_adapter_from(_, _)
find_adapter_from(id, list) ==
    IF id >= Len(list) THEN NoAdapter
    ELSE IF \E k \in 1..Len(At(list, id)) : graphics_and_present(At(list, id)[k]) THEN id
    ELSE find_adapter_from(id + 1, list)

find_adapter(list) == find_adapter_from(0, list)

\* Before GfxState::new, on an instance that enumerates the given adapters.
SelectStart(list) ==
    /\ adapters = list
    /\ adapter = NoAdapter
    /\ queue_family = NoQueueFamily
    /\ opened = "none"

\* No selection is followed.
NoSelection == SelectStart(<<>>)

\* The adapter and queue family searches of one call that found an adapter.
Selected ==
    /\ opened = "none"
    /\ find_adapter(adapters) # NoAdapter
    /\ adapter' = find_adapter(adapters)
    /\ queue_family' = find_queue_family(At(adapters, adapter'))
    /\ UNCHANGED <<adapters, mainVars, bufVars>>

\* gfx_state.rs:88-96: no adapter qualifies; ok_or and `?`.
no_adapter_err ==
    /\ opened = "none"
    /\ find_adapter(adapters) = NoAdapter
    /\ opened' = "No adapter supporting Vulkan"
    /\ UNCHANGED <<adapters, adapter, queue_family, mainVars, bufVars>>

\* gfx_state.rs:106-112: physical_device.open fails.
open_err ==
    /\ Selected
    /\ opened' = "Could not open physical device"

\* gfx_state.rs:121-124: no queue group of the opened device has the family.
queue_group_err ==
    /\ Selected
    /\ opened' = "Matching queue group not found"

\* gfx_state.rs:126-130: the queue group has no queues.
no_queues_err ==
    /\ Selected
    /\ opened' = "Queue group contains no command queues"

\* gfx_state.rs:88-130: the device is open and the queue group has a queue.
device_opened ==
    /\ Selected
    /\ opened' = NoError

----------------------------------------------------------------------------
\* The program: main (main.rs:30-98).

\* main.rs:52, 55: the first state is built and the first frame rendered.
startup_ok(n) ==
    /\ proc = "starting"
    /\ NewState(n)
    /\ proc' = "running"
    /\ pc' = "idle"
    /\ UNCHANGED <<failures, kind, locals, result, ops, dropped>>
    /\ UNCHANGED <<bufVars, selVars>>

\* main.rs:52: `?` returns the construction error from main.
startup_err ==
    /\ proc = "starting"
    /\ proc' = "failed"
    /\ UNCHANGED <<failures, kind, pc, locals, result, ops, gfxVars, gpuVars>>
    /\ UNCHANGED <<bufVars, selVars>>

\* main.rs:91-93, 100-101
RedrawRequested == draw_frame_begin

\* A handler that builds the new state while the old one is still unreleased.
Resized_ops_new_first(first, created, second) == created \o first \o second

\* main.rs:73-77: gfx_state.free(), then GfxState::new, then the old value is
\* dropped (by the assignment, or by the unwinding of panic!).
Resized_ops(first, created, second) == first \o created \o second

\* main.rs:70-78 with a successful GfxState::new: free, new, and the assignment,
\* which drops the old value (Drop for GfxState, gfx_state.rs:403-407, calls
\* free once more).
Resized_ok(n) ==
    /\ InFrame("idle")
    /\ FreeCanRun
    /\ LET first == FreeDestroyed(destroyed, VecLen, freed)
           second == FreeDestroyed(first, Drained, kind = "HalState")
       IN  dropped' = second
    /\ ops' = Resized_ops(FreeOps(VecLen, freed), <<Op("new", n, 0)>>,
                           FreeOps(Drained, kind = "HalState"))
    /\ NewState(n)
    /\ pc' = "resized"
    /\ UNCHANGED <<failures, kind, proc, locals, result>>
    /\ UNCHANGED <<bufVars, selVars>>

\* main.rs:73-76 with a failed GfxState::new: free, then panic!(e); the unwinding
\* drops the closure and with it the old state, which calls free once more.
Resized_err ==
    /\ InFrame("idle")
    /\ FreeCanRun
    /\ LET first == FreeDestroyed(destroyed, VecLen, freed)
           second == FreeDestroyed(first, Drained, kind = "HalState")
       IN  destroyed' = second /\ dropped' = second
    /\ FreeFields
    /\ ops' = Resized_ops(FreeOps(VecLen, freed), <<Op("new_failed", 0, 0)>>,
                           FreeOps(Drained, kind = "HalState"))
    /\ pc' = "panic"
    /\ proc' = "aborted"
    /\ result' = "panic: GfxState::new failed"
    /\ UNCHANGED <<failures, kind, locals, gpuVars>>
    /\ UNCHANGED <<bufVars, selVars>>

\* The closure that owns the state is dropped: Drop calls free
\* (gfx_state.rs:403-407, hal_state.rs:607-611).
Dropped ==
    /\ FreeCanRun
    /\ dropped' = FreeDestroyed(destroyed, VecLen, freed)
    /\ destroyed' = FreeDestroyed(destroyed, VecLen, freed)
    /\ FreeFields
    /\ ops' = FreeOps(VecLen, freed)
    /\ UNCHANGED <<bufVars, selVars>>

\* main.rs:61-69: ControlFlow::Exit ends the event loop, which drops the closure.
CloseRequested ==
    /\ InFrame("idle")
    /\ Dropped
    /\ proc' = "exited"
    /\ UNCHANGED <<failures, kind, pc, locals, result, gpuVars>>

\* A panic inside draw_frame unwinds out of the event loop.
unwind ==
    /\ proc = "unwinding"
    /\ Dropped
    /\ proc' = "aborted"
    /\ UNCHANGED <<failures, kind, pc, locals, result, gpuVars>>
    /\ UNCHANGED <<bufVars, selVars>>

draw_frame ==
    \/ \E i \in 0..(MaxImages - 1) : acquire_image_ok(i)
    \/ \E i \in 0..(MaxImages - 1) : acquire_image_suboptimal(i)
    \/ present_suboptimal
    \/ acquire_image_err
    \/ wait_for_fence_err
    \/ reset_fence_err
    \/ load_vertices_err
    \/ load_indices_err
    \/ present_ok
    \/ present_err

Gpu ==
    \/ \E i \in 0..(MaxImages - 1) : ImageReady(i)
    \/ GpuBegin
    \/ GpuComplete
    \/ PresentExec

\* The state before construction, for a program built on render state type k.
Start(k) ==
    /\ kind = k
    /\ proc = "starting"
    /\ pc = "idle"
    /\ image_available = 0
    /\ image_i = 0
    /\ result = "none"
    /\ ops = <<>>
    /\ failures = 0
    /\ current_frame = 0
    /\ in_flight_fences = <<>>
    /\ render_finished_semaphores = <<>>
    /\ image_available_semaphores = <<>>
    /\ command_buffers = <<>>
    /\ framebuffers = 0
    /\ image_views = 0
    /\ descriptor_set_layouts = 0
    /\ freed = FALSE
    /\ destroyed = NoneDestroyed
    /\ dropped = NoneDestroyed
    /\ images = <<>>
    /\ acquire_sem = <<>>
    /\ queue = <<>>
    /\ presents = <<>>

\* main.rs declares gfx_state and drawing: the program runs on GfxState.
Init == Start("GfxState") /\ NoBuffer /\ NoSelection

Next ==
    \/ \E n \in ImageCounts : startup_ok(n)
    \/ startup_err
    \/ RedrawRequested
    \/ \E n \in ImageCounts : Resized_ok(n)
    \/ Resized_err
    \/ CloseRequested
    \/ unwind
    \/ draw_frame
    \/ event_handled
    \/ Gpu

Spec == Init /\ [][Next]_vars

----------------------------------------------------------------------------
\* A caller of the public interface of either render state type: new/init,
\* draw_frame and free in any order, with every device call succeeding.

\* Most explicit free() calls the caller makes on one state (model bound).
MaxFrees == 2

\* pub fn free(&mut self) called by the owner (gfx_state.rs:362, hal_state.rs:549).
free ==
    /\ InFrame("idle")
    /\ FreeCanRun
    /\ destroyed["swapchain"] < MaxFrees
    /\ destroyed' = FreeDestroyed(destroyed, VecLen, freed)
    /\ FreeFields
    /\ ops' = FreeOps(VecLen, freed)
    /\ UNCHANGED <<failures, kind, proc, pc, locals, result, dropped, gpuVars>>
    /\ UNCHANGED <<bufVars, selVars>>

InitApi == (\E k \in {"GfxState", "HalState"} : Start(k)) /\ NoBuffer /\ NoSelection

NextApi ==
    \/ \E n \in ImageCounts : startup_ok(n)
    \/ draw_frame_begin
    \/ \E i \in 0..(MaxImages - 1) : acquire_image_ok(i)
    \/ present_ok
    \/ \E b \in {VERTICES, INDICES} : send_buffer_data_err(b)
    \/ event_handled
    \/ free
    \/ unwind
    \/ Gpu

SpecApi == InitApi /\ [][NextApi]_vars

----------------------------------------------------------------------------
\* One device selection on an instance with any adapters.

InitSelect ==
    /\ Start("GfxState")
    /\ NoBuffer
    /\ \E list \in AdapterLists : SelectStart(list)

NextSelect ==
    \/ no_adapter_err
    \/ open_err
    \/ queue_group_err
    \/ no_queues_err
    \/ device_opened

SpecSelect == InitSelect /\ [][NextSelect]_vars

----------------------------------------------------------------------------
\* Frames drawn on a fresh state with every device call succeeding, a GPU that
\* completes what was submitted and a swapchain that hands out an image whenever
\* one is available.

NextFrames ==
    \/ \E n \in ImageCounts : startup_ok(n)
    \/ RedrawRequested
    \/ \E i \in 0..(MaxImages - 1) : acquire_image_ok(i)
    \/ present_ok
    \/ event_handled
    \/ unwind
    \/ Gpu

FairFrames ==
    /\ WF_vars(\E i \in 0..(MaxImages - 1) : acquire_image_ok(i))
    /\ WF_vars(present_ok)
    /\ WF_vars(\E i \in 0..(MaxImages - 1) : ImageReady(i))
    /\ WF_vars(GpuBegin)
    /\ WF_vars(GpuComplete)
    /\ WF_vars(PresentExec)

SpecFrames == Init /\ [][NextFrames]_vars /\ FairFrames

----------------------------------------------------------------------------
\* One buffer on an adapter with any memory types: a construction, then uploads.

InitBuffer ==
    /\ Start("GfxState")
    /\ NoSelection
    /\ \E types \in MemoryTypes : BufferStart(types)

NextBuffer ==
    \/ \E d \in DataSlices : create_buffer_err(d)
    \/ \E d \in DataSlices : \E req \in Requirements(d) : memory_type_err(d, req)
    \/ \E d \in DataSlices : \E req \in Requirements(d) : allocate_memory_err(d, req)
    \/ \E d \in DataSlices : \E req \in Requirements(d) : bind_buffer_memory_err(d, req)
    \/ \E d \in DataSlices : \E req \in Requirements(d) : BufferInfo_new(d, req)
    \/ \E d \in DataSlices : BufferInfo_load_data(d)
    \/ \E d \in DataSlices : map_memory_err(d)
    \/ \E d \in DataSlices : \E fault \in BOOLEAN : load_data_out_of_range(d, fault)

SpecBuffer == InitBuffer /\ [][NextBuffer]_vars

----------------------------------------------------------------------------
\* Properties of frame synchronisation.

\* C1: the command buffer of image i is recorded again and submitted only after
\* the in-flight fence of image i has been seen signaled, and never while an
\* earlier submission of that command buffer is still on the queue.
C1_NoRerecordWhilePending ==
    [][Len(queue') > Len(queue) =>
          /\ At(in_flight_fences, image_i) = "signaled"
          /\ At(command_buffers, image_i) = "ready"
          /\ \A k \in 1..Len(queue) : queue[k].cb # image_i]_vars

\* The call holds at the fence of an image whose earlier submission is pending.
C1_Witness ==
    /\ pc = "wait"
    /\ At(in_flight_fences, image_i) = "unsignaled"
    /\ At(command_buffers, image_i) = "pending"

\* C2: current_frame stays in 0..FRAMES_IN_FLIGHT-1; the step that enters
\* draw_frame advances it by one modulo 3 and no later step of the call, failed
\* or not, changes it.
C2_SlotRotation ==
    [][/\ current_frame \in 0..(FRAMES_IN_FLIGHT - 1)
       /\ current_frame' \in 0..(FRAMES_IN_FLIGHT - 1)
       /\ (pc = "idle" /\ pc' \in {"acquire", "returned"})
              => current_frame' = (current_frame + 1) % 3
       /\ (pc = "idle" /\ proc' = "unwinding")
              => current_frame' = (current_frame + 1) % 3
       /\ pc \in {"acquire", "wait", "returned"}
              => current_frame' = current_frame]_vars

\* A failed call has returned after the slot index wrapped from 2 to 0.
C2_Witness ==
    /\ pc = "returned"
    /\ result # NoError
    /\ image_available = FRAMES_IN_FLIGHT - 1
    /\ current_frame = 0

\* C3: a submission begins executing on the GPU only once the image it renders
\* into has been signaled as acquired, never while the acquire of that image is
\* still outstanding.
C3_RenderAfterAcquired ==
    [][\A k \in 1..Len(queue) :
          (Len(queue') = Len(queue) /\ ~queue[k].begun /\ queue'[k].begun)
              => At(acquire_sem, queue[k].cb) = NoSemaphore]_vars

\* C4: a present request executes only after the submission that renders into
\* its image has completed, never while that submission is still on the queue.
C4_PresentAfterRender ==
    [][Len(presents') < Len(presents) =>
          \A k \in 1..Len(queue) : queue[k].cb # Head(presents).image]_vars

\* C5: a step of draw_frame that copies into the vertex or index buffer is taken
\* only while no submitted command buffer is executing on the GPU.
C5_UploadNotDuringExecution ==
    [][(\E k \in (Len(ops) + 1)..Len(ops') : ops'[k][1] = "copy")
          => \A j \in 1..Len(queue) : ~queue[j].begun]_vars

----------------------------------------------------------------------------
\* Properties of release.

\* C6: over any sequence of events no resource of a render state is destroyed
\* more than once, neither on the state in use nor on a state that was replaced
\* or dropped.
C6_ReleasedOnce ==
    \A k \in Kinds : destroyed[k] <= 1 /\ dropped[k] <= 1

C8_DrawAfterReleaseFails ==
    [][(proc = "running" /\ pc = "idle" /\ pc' # "idle"
            /\ image_available_semaphores = <<>>)
          => (proc' = "running" /\ result' = "Use of freed Gfx state" /\ ops' = <<>>)]_vars

\* C9: once a draw_frame call has failed, a later call still hands acquire_image
\* a semaphore in a consistent state: unsignaled, with no earlier acquire left to
\* signal it and no earlier submission left to wait on it.
C9_UsableAfterFailure ==
    [][(failures > 0 /\ pc = "acquire" /\ pc' = "wait") =>
          /\ At(image_available_semaphores, image_available) = "unsignaled"
          /\ \A i \in 1..Len(acquire_sem) : acquire_sem[i] # image_available
          /\ \A k \in 1..Len(queue) :
                 queue[k].begun \/ queue[k].wait # image_available]_vars

----------------------------------------------------------------------------
\* Properties of HalState::draw_frame.

\* C11: a HalState::draw_frame call in which the map of the vertex or index
\* buffer failed returns an error and has recorded, submitted and presented
\* nothing.
C11_HalMapFailureFailsFrame ==
    (kind = "HalState" /\ pc = "returned"
        /\ \E k \in 1..Len(ops) : ops[k][1] = "map_memory_failed")
    => /\ result # NoError
       /\ \A k \in 1..Len(ops) :
              ops[k][1] \notin {"begin_primary", "finish", "submit", "present"}

----------------------------------------------------------------------------
\* Properties of the fences and of the counts of per-image objects.

\* C12: the number of in-flight fences that are unsignaled (reset by a call and
\* not yet signaled by the GPU) never exceeds the number of swapchain images.
C12_OutstandingFencesBounded ==
    Cardinality({i \in 1..Len(in_flight_fences) : in_flight_fences[i] = "unsignaled"})
        <= Len(images)

\* Every image of a two-image swapchain has a frame in flight.
C12_Witness ==
    /\ Len(images) = 2
    /\ Len(queue) = 2
    /\ Cardinality({i \in 1..Len(in_flight_fences) : in_flight_fences[i] = "unsignaled"}) = 2

\* C13: on a state built by GfxState::new, every draw_frame call that is at
\* acquire_image or at the fence wait gets past it and ends, the first three
\* calls included, and a command buffer is submitted only with its fence
\* signaled.
C13_FreshFramesTerminate ==
    /\ (pc \in {"acquire", "wait"}) ~> (pc \in {"returned", "panic"})
    /\ [][Len(queue') > Len(queue) => At(in_flight_fences, image_i) = "signaled"]_vars

\* The third call on a fresh three-image state has returned Ok with all three
\* frames still in flight.
C13_Witness ==
    /\ pc = "returned"
    /\ result = NoError
    /\ image_available = FRAMES_IN_FLIGHT - 1
    /\ Len(images) = 3
    /\ Len(queue) = 3
    /\ Len(presents) = 3

\* C14: while a render state is constructed and not released, its image view,
\* framebuffer, command buffer and swapchain image counts are equal, after a
\* resize too, and no step other than the replacement of the state changes them.
C14_CountsEqual ==
    [][/\ in_flight_fences' # <<>> =>
              /\ image_views' = framebuffers'
              /\ framebuffers' = Len(command_buffers')
              /\ Len(command_buffers') = Len(images')
       /\ (in_flight_fences # <<>> /\ in_flight_fences' # <<>> /\ pc' # "resized") =>
              /\ image_views' = image_views
              /\ framebuffers' = framebuffers
              /\ Len(command_buffers') = Len(command_buffers)
              /\ Len(images') = Len(images)]_vars

\* A resize after a failed frame has built a new state with two of each.
C14_Witness ==
    /\ pc = "resized"
    /\ failures > 0
    /\ image_views = 2
    /\ framebuffers = 2
    /\ Len(command_buffers) = 2
    /\ Len(images) = 2

----------------------------------------------------------------------------
\* Properties of the outcomes of a frame.

\* C15: a present that reports suboptimal makes draw_frame return Ok; an
\* acquire that reports suboptimal lets the call go on to the fence of the
\* acquired image; neither step releases or rebuilds the render state.
C15_SuboptimalIsSuccess ==
    [][/\ (\E k \in (Len(ops) + 1)..Len(ops') : ops'[k][1] = "present_suboptimal")
              => /\ pc' = "returned"
                 /\ result' = NoError
                 /\ destroyed' = destroyed
                 /\ Len(in_flight_fences') = FRAMES_IN_FLIGHT
       /\ (\E k \in (Len(ops) + 1)..Len(ops') : ops'[k][1] = "acquire_image_suboptimal")
              => /\ pc' = "wait" \/ ~InBounds(in_flight_fences, image_i')
                 /\ result' = result \/ ~InBounds(in_flight_fences, image_i')
                 /\ destroyed' = destroyed
                 /\ Len(in_flight_fences') = FRAMES_IN_FLIGHT]_vars

\* A frame whose acquire and whose present both reported suboptimal has
\* returned Ok.
C15_Witness ==
    /\ pc = "returned"
    /\ result = NoError
    /\ \E k \in 1..Len(ops) : ops[k][1] = "acquire_image_suboptimal"
    /\ \E k \in 1..Len(ops) : ops[k][1] = "present_suboptimal"

\* drawing.rs:28,33,34,112: the message map_err gives each failed device call.
frame_error ==
    [op \in {"acquire_image_failed", "wait_for_fence_failed",
             "reset_fence_failed", "present_failed"} |->
        CASE op = "acquire_image_failed"  -> "Failed to acquire an image from the swapchain"
          [] op = "wait_for_fence_failed" -> "Failed to wait on the fence"
          [] op = "reset_fence_failed"    -> "Failed to reset the fence"
          [] op = "present_failed"        -> "Failed to present into the swapchain"]

\* C16: a step in which acquire, the fence wait, the fence reset or present
\* fails ends the call with that step's error: the failed call is the last
\* device call of the step and is made once, the call has returned, nothing
\* is submitted or queued for presentation after a failure that precedes the
\* submission, and a returned call makes no further device call.
C16_FailsWithoutRetry ==
    [][/\ \A k \in (Len(ops) + 1)..Len(ops') :
              ops'[k][1] \in DOMAIN frame_error
                  => /\ k = Len(ops')
                     /\ pc' = "returned"
                     /\ result' = frame_error[ops'[k][1]]
                     /\ \A j \in (Len(ops) + 1)..(k - 1) : ops'[j][1] # ops'[k][1]
                     /\ ops'[k][1] # "present_failed"
                            => queue' = queue /\ presents' = presents
                     /\ presents' = presents
       /\ (pc = "returned" /\ pc' = "returned") => ops' = ops]_vars

\* A frame has returned the error of a fence reset that failed after the
\* acquire and the wait went through.
C16_Witness ==
    /\ pc = "returned"
    /\ Len(ops) > 1
    /\ ops[Len(ops)][1] = "reset_fence_failed"
    /\ result = "Failed to reset the fence"

----------------------------------------------------------------------------
\* Properties of one buffer.

\* The first n bytes of the buffer's memory as a read of the mapped range
\* returns them.
ReadBack(n) == [k \in 1..n |-> mapped_memory[k].val]

\* C17: after a load_data that returned Ok for a slice of the byte length the
\* buffer was created for, the first bytes of the buffer's memory, as many as
\* the slice has, are the bytes of the slice.
C17_ReadBackIsData ==
    (buffer_info = NoError /\ uploads > 0 /\ load_result = NoError
        /\ Len(as_bytes(data)) = requested)
        => /\ Len(mapped_memory) >= Len(as_bytes(data))
           /\ ReadBack(Len(as_bytes(data))) = as_bytes(data)

\* A second upload of the creation length has replaced a different first one
\* in a buffer whose memory is larger than the length asked for.
C17_Witness ==
    /\ buffer_info = NoError
    /\ uploads = 2
    /\ load_result = NoError
    /\ Len(as_bytes(data)) = requested
    /\ requirements.size > requested
    /\ data = <<256>>
    /\ ReadBack(2) = <<0, 1>>

\* C18: after a load_data that returned Ok, no byte of the range
\* 0..requirements.size holds a value an earlier upload wrote.
C18_OverwritesEntirely ==
    (buffer_info = NoError /\ uploads > 0 /\ load_result = NoError)
        => \A k \in 1..Len(mapped_memory) : mapped_memory[k].by \notin 1..(uploads - 1)

\* C19: once the buffer exists, BufferInfo::new fails with the memory type
\* error exactly when no id has its mask bit set and is CPU-visible, and then
\* no memory is allocated; otherwise the id it selects is the lowest such id.
C19_LowestCompatibleType ==
    LET Compatible == {id \in 0..(Len(memory_types) - 1) :
                           /\ (requirements.type_mask \div 2^id) % 2 = 1
                           /\ memory_types[id + 1]}
    IN  (buffer_info \notin {"none", "Failed to create a buffer for the vertices"})
            => /\ (Compatible = {})
                     <=> (buffer_info = "Failed to find a memory type to support the vertex buffer")
               /\ (Compatible = {}) => ("memory" \notin live /\ memory_type_id = NoMemoryType)
               /\ (Compatible # {})
                     => /\ memory_type_id \in Compatible
                        /\ \A j \in Compatible : memory_type_id <= j

\* A buffer whose memory is of type 1: type 0 is CPU-visible but not in the
\* mask, type 1 is CPU-visible and in the mask.
C19_Witness ==
    /\ buffer_info = NoError
    /\ memory_types = <<TRUE, TRUE>>
    /\ requirements.type_mask = 2
    /\ memory_type_id = 1
    /\ "memory" \in live

\* C20: a BufferInfo::new that returned an error has left neither a buffer
\* handle nor a memory allocation live on the device.
C20_NoPartialState ==
    (buffer_info \notin {"none", NoError}) => live = {}

----------------------------------------------------------------------------
\* Properties of the release of buffers and of whole render states.

C22_NothingLeaks ==
    (destroyed["swapchain"] >= 1) => \A k \in Kinds : destroyed[k] >= 1

----------------------------------------------------------------------------
\* Properties of the pipeline.

\* C23: whenever draw_frame has recorded its push of two words for the vertex
\* stage at offset 0, the pipeline layout it pushes against declares a
\* push-constant range on the vertex stage that holds words 0 and 1.
C23_PushInsideDeclaredRange ==
    \A k \in 1..Len(ops) :
        ops[k][1] = "push_graphics_constants"
            => \E r \in 1..Len(push_constant_ranges) :
                   /\ push_stage \in push_constant_ranges[r].stages
                   /\ push_constant_ranges[r].start <= push_offset
                   /\ push_offset + ops[k][3] <= push_constant_ranges[r].end

\* C24: every run of PipelineInfo::free destroys the descriptor set layouts,
\* then the pipeline layout, then the graphics pipeline, and over the life of
\* a render state each of them is destroyed once and no more.
C24_PipelineReleasedInOrderOnce ==
    LET PipelineKinds == {"descriptor_set_layout", "pipeline_layout", "graphics_pipeline"}
    IN  /\ \A k \in 1..Len(ops) :
               ops[k][1] = "destroy_pipeline_layout"
                   => /\ k < Len(ops) /\ ops[k + 1][1] = "destroy_graphics_pipeline"
                      /\ \A j \in (k + 1)..Len(ops) :
                             ops[j][1] = "destroy_descriptor_set_layout"
                                 => \E m \in (k + 1)..(j - 1) : ops[m][1] = "wait_idle"
        /\ \A k \in 1..Len(ops) :
               ops[k][1] = "destroy_graphics_pipeline"
                   => k > 1 /\ ops[k - 1][1] = "destroy_pipeline_layout"
        /\ \A p \in PipelineKinds : destroyed[p] <= 1 /\ dropped[p] <= 1

----------------------------------------------------------------------------
\* Properties of device selection.

\* C25: a selection that found an adapter has the first adapter, in
\* enumeration order, with a queue family that supports graphics and can
\* present to the surface, and its queue family is one of that adapter with
\* both properties; the selection fails with the adapter error exactly when
\* no adapter has such a family, and it ends in an error when the open fails
\* or the queue group is empty.
C25_FirstQualifyingAdapter ==
    LET Both(a, f) == /\ adapters[a + 1][f + 1].queue_type \in {"General", "Graphics"}
                      /\ adapters[a + 1][f + 1].present
        Qualifying == {a \in 0..(Len(adapters) - 1) :
                           \E f \in 0..(Len(adapters[a + 1]) - 1) : Both(a, f)}
    IN  (opened # "none")
            => /\ (Qualifying = {}) <=> (opened = "No adapter supporting Vulkan")
               /\ (Qualifying = {}) => adapter = NoAdapter
               /\ (Qualifying # {})
                     => /\ adapter \in Qualifying
                        /\ \A a \in Qualifying : adapter <= a
                        /\ queue_family \in 0..(Len(adapters[adapter + 1]) - 1)
                        /\ Both(adapter, queue_family)
               /\ (opened = NoError) => Qualifying # {}

\* The device was opened on the second adapter through its second family: the
\* first adapter has graphics without present and present without graphics,
\* and so has the first family of the second.
C25_Witness ==
    /\ opened = NoError
    /\ adapters = << <<[queue_type |-> "Graphics", present |-> FALSE],
                       [queue_type |-> "Compute", present |-> TRUE]>>,
                     <<[queue_type |-> "Graphics", present |-> FALSE],
                       [queue_type |-> "Graphics", present |-> TRUE]>> >>
    /\ adapter = 1
    /\ queue_family = 1

----------------------------------------------------------------------------
\* Properties of the event loop.

\* C26: once startup has succeeded the process ends only by leaving the event
\* loop on request, never abnormally, whatever a draw_frame or a resize does;
\* and a draw_frame call that returned, with an error or without, is followed
\* by the wait for the next event.
C26_NoAbortAfterStartup ==
    [][/\ (proc = "running") => proc' \in {"running", "exited"}
       /\ (proc = "running" /\ pc = "returned" /\ pc' # pc)
              => (proc' = "running" /\ pc' = "idle")]_vars

\* C27: a resize releases the old state in one full run of free before the
\* new state is constructed; after a successful recreation the state in use is
\* a fresh one of which nothing is destroyed, and a frame is only ever drawn on
\* such a state; after a failed recreation the process has panicked and takes
\* no further step.
C27_TeardownThenRecreate ==
    [][/\ \A k \in 1..Len(ops') :
              (ops' # ops /\ ops'[k][1] \in {"new", "new_failed"})
                  => /\ k > 1
                     /\ SubSeq(ops', 1, k - 1) = GfxState_free_ops(VecLen)
                     /\ ops'[1][1] = "wait_idle"
                     /\ ops'[k - 1][1] = "destroy_swapchain"
                     /\ \A j \in 1..(k - 1) : ops'[j][1] \notin {"new", "new_failed"}
                     /\ ops'[k][1] = "new"
                            => /\ proc' = "running" /\ pc' = "resized"
                               /\ destroyed' = NoneDestroyed
                               /\ \A kd \in Kinds : dropped'[kd] >= 1
                               /\ in_flight_fences' = Fill(FRAMES_IN_FLIGHT, "signaled")
                               /\ Len(command_buffers') = Len(images')
                               /\ \A i \in 1..Len(images') :
                                      images'[i] = "available" /\ command_buffers'[i] = "ready"
                               /\ queue' = <<>> /\ presents' = <<>>
                     /\ ops'[k][1] = "new_failed"
                            => proc' = "aborted" /\ pc' = "panic"
       /\ (pc' \in {"acquire", "wait"}) => destroyed' = NoneDestroyed
       /\ (proc = "aborted") => (proc' = "aborted" /\ pc' = pc)]_vars

\* A resize has replaced the state: the old one is released, the new one
\* starts at frame slot 0 with nothing destroyed.
C27_Witness ==
    /\ proc = "running"
    /\ pc = "resized"
    /\ dropped["swapchain"] >= 1
    /\ dropped["fence"] = 1
    /\ destroyed = NoneDestroyed
    /\ current_frame = 0
    /\ Len(images) = MaxImages
    /\ \E k \in 1..Len(ops) : ops[k][1] = "new"

----------------------------------------------------------------------------
\* Properties of HalState::free.

\* C28: the step that sets the freed flag of a HalState destroys its
\* resources, each drained or read-out kind once; on a HalState whose flag is
\* set no step, a further free and the one made by Drop included, destroys
\* anything or changes a field of the state.
C28_FreeIdempotent ==
    [][(kind = "HalState")
          => /\ (~freed /\ freed')
                    => /\ \A k \in VecKinds \cup HalPtrKinds : destroyed'[k] = destroyed[k] + 1
                       /\ ops' # <<>> /\ ops'[1][1] = "wait_idle"
             /\ freed
                    => /\ freed'
                       /\ destroyed' = destroyed
                       /\ \A k \in 1..Len(ops') :
                              ops' # ops => ops'[k][1] \notin
                                  {"wait_idle", "destroy_fence", "destroy_render_finished",
                                   "destroy_image_available", "destroy_framebuffer",
                                   "destroy_image_view", "destroy_descriptor_set_layout",
                                   "destroy_command_pool", "destroy_render_pass",
                                   "destroy_swapchain", "destroy_pipeline_layout",
                                   "destroy_graphics_pipeline"}
                       /\ UNCHANGED <<current_frame, in_flight_fences,
                                      render_finished_semaphores, image_available_semaphores,
                                      command_buffers, framebuffers, image_views,
                                      descriptor_set_layouts>>]_vars

\* A released HalState after a further call of free: the flag is set, the log
\* of the call is empty and the swapchain was destroyed once.
C28_Witness ==
    /\ kind = "HalState"
    /\ freed
    /\ proc = "running"
    /\ pc = "idle"
    /\ result = "none"
    /\ ops = <<>>
    /\ destroyed["swapchain"] = 1
    /\ in_flight_fences = <<>>

----------------------------------------------------------------------------
\* Properties of the steps inside one draw_frame call.

\* C29: in the log of every draw_frame call a map of buffer memory is
\* followed at once by the copy into it and by its unmap, and there is no copy
\* or unmap without that map; a submit comes after the unmap of the vertex
\* and of the index upload, with no map after it; so when the call has
\* returned, with Ok or with an error, every map has its unmap.
C29_MappedOnlyForCopy ==
    LET is(k, name, b) == k \in 1..Len(ops) /\ ops[k] = <<name, b, 0>>
        count(name) == Cardinality({k \in 1..Len(ops) : ops[k][1] = name})
    IN  /\ \A k \in 1..Len(ops) :
               /\ ops[k][1] = "map_memory"
                      => is(k + 1, "copy", ops[k][2]) /\ is(k + 2, "unmap_memory", ops[k][2])
               /\ ops[k][1] = "copy"
                      => is(k - 1, "map_memory", ops[k][2])
               /\ ops[k][1] = "unmap_memory"
                      => is(k - 2, "map_memory", ops[k][2])
               /\ ops[k][1] = "map_memory_failed"
                      => k = Len(ops)
               /\ ops[k][1] = "submit"
                      => /\ \E j \in 1..(k - 1) : is(j, "unmap_memory", VERTICES)
                         /\ \E j \in 1..(k - 1) : is(j, "unmap_memory", INDICES)
                         /\ \A j \in (k + 1)..Len(ops) :
                                ops[j][1] \notin {"map_memory", "copy", "unmap_memory"}
        /\ (pc \in {"returned", "idle"}) => count("map_memory") = count("unmap_memory")

\* A call has returned the map error of the index upload after the vertex
\* upload was mapped, copied and unmapped.
C29_Witness ==
    /\ pc = "returned"
    /\ result = "Failed to memory map buffer"
    /\ \E k \in 1..(Len(ops) - 3) :
           /\ ops[k] = <<"map_memory", VERTICES, 0>>
           /\ ops[k + 1] = <<"copy", VERTICES, 0>>
           /\ ops[k + 2] = <<"unmap_memory", VERTICES, 0>>
           /\ ops[k + 3] = <<"map_memory_failed", INDICES, 0>>

\* C30: the step that ends a draw_frame call with Ok leaves a log of exactly
\* these calls, each once and in this order: acquire with the slot's
\* image-available semaphore, wait on the fence of the acquired index, reset
\* of the same fence, vertex upload, index upload, recording of the command
\* buffer of the acquired index on the framebuffer of that index, submit,
\* present of that index; the submission it has put on the queue names the
\* command buffer and the fence of the acquired index, that fence is left
\* reset, and the image presented is the acquired one.
C30_StepsInOrder ==
    [][(pc # "returned" /\ pc' = "returned" /\ result' = NoError)
          => LET i == image_i'
                 sem == image_available'
                 names == [k \in 1..Len(ops') |-> ops'[k][1]]
             IN  /\ Len(ops') = 20
                 /\ ops'[1] \in {<<"acquire_image", sem, i>>,
                                 <<"acquire_image_suboptimal", sem, i>>}
                 /\ SubSeq(ops', 2, 3) = <<<<"wait_for_fence", i, 0>>, <<"reset_fence", i, 0>>>>
                 /\ SubSeq(ops', 4, 6) = <<<<"map_memory", VERTICES, 0>>, <<"copy", VERTICES, 0>>,
                                           <<"unmap_memory", VERTICES, 0>>>>
                 /\ SubSeq(ops', 7, 9) = <<<<"map_memory", INDICES, 0>>, <<"copy", INDICES, 0>>,
                                           <<"unmap_memory", INDICES, 0>>>>
                 /\ SubSeq(names, 10, 18) =
                        <<"begin_primary", "bind_graphics_pipeline", "bind_vertex_buffers",
                          "bind_index_buffer", "push_graphics_constants", "begin_render_pass",
                          "draw_indexed", "end_render_pass", "finish">>
                 /\ ops'[10][2] = i /\ ops'[18][2] = i
                 /\ ops'[15] = <<"begin_render_pass", i, i>>
                 /\ ops'[19] = <<"submit", i, sem>>
                 /\ ops'[20] \in {<<"present", i, sem>>, <<"present_suboptimal", i, sem>>}
                 /\ Len(queue') = Len(queue) + 1
                 /\ queue'[Len(queue')].cb = i
                 /\ queue'[Len(queue')].fence = i
                 /\ queue'[Len(queue')].wait = sem
                 /\ in_flight_fences[i + 1] = "signaled"
                 /\ in_flight_fences'[i + 1] = "unsignaled"
                 /\ Len(presents') = Len(presents) + 1
                 /\ presents'[Len(presents')].image = i]_vars

\* A call in frame slot 0 that acquired image 2 has returned Ok.
C30_Witness ==
    /\ pc = "returned"
    /\ result = NoError
    /\ image_available = 0
    /\ image_i = 2
    /\ Len(ops) = 20
    /\ ops[20] = <<"present", 2, 0>>

----------------------------------------------------------------------------
\* Properties of the recording.

\* C31: in every log a submit is preceded at once by a complete recording of
\* the command buffer it submits: begin, bind pipeline, bind vertex buffer,
\* bind index buffer, push constants, begin render pass, one indexed draw of 6
\* indices and 1 instance, end render pass, finish, in this order; and every
\* recording that was begun runs to its finish in the same way.
C31_WellFormedRecording ==
    LET Recording == <<"begin_primary", "bind_graphics_pipeline", "bind_vertex_buffers",
                       "bind_index_buffer", "push_graphics_constants", "begin_render_pass",
                       "draw_indexed", "end_render_pass", "finish">>
        names(a, b) == [k \in 1..(b - a + 1) |-> ops[a + k - 1][1]]
    IN  \A k \in 1..Len(ops) :
            /\ ops[k][1] = "submit"
                   => /\ k > 9
                      /\ names(k - 9, k - 1) = Recording
                      /\ ops[k - 9][2] = ops[k][2]
                      /\ ops[k - 1][2] = ops[k][2]
                      /\ ops[k - 3] = <<"draw_indexed", 6, 1>>
            /\ ops[k][1] = "begin_primary"
                   => /\ k + 9 <= Len(ops)
                      /\ names(k, k + 8) = Recording
                      /\ ops[k + 9][1] = "submit"
            /\ ops[k][1] \in {"draw_indexed", "end_render_pass", "finish", "begin_render_pass"}
                   => \E j \in 1..(k - 1) :
                          /\ ops[j][1] = "begin_primary"
                          /\ k - j <= 8
                          /\ ops[k][1] = Recording[k - j + 1]

\* A call that acquired image 1 has submitted its recording and returned.
C31_Witness ==
    /\ pc = "returned"
    /\ image_i = 1
    /\ Len(ops) >= 19
    /\ ops[19] = <<"submit", 1, image_available>>
    /\ ops[10] = <<"begin_primary", 1, 0>>
    /\ ops[18] = <<"finish", 1, 0>>

----------------------------------------------------------------------------
\* Properties of the effect of one draw_frame call on the render state.

\* C32: a step of a draw_frame call, whether it goes on, returns Ok, returns
\* an error or panics, destroys nothing, leaves the framebuffers, image views
\* and descriptor set layouts and the length of every list as they are, and
\* changes no fence, command buffer or image but that of the acquired index
\* and no semaphore but those of the call's slot.
C32_OnlyPerFrameState ==
    [][LET DrawStep == /\ proc = "running"
                       /\ pc \in {"idle", "acquire", "wait"}
                       /\ pc' # pc
                       /\ pc' # "resized"
                       /\ proc' \in {"running", "unwinding"}
           Same(v, w, keep) == /\ Len(w) = Len(v)
                               /\ \A j \in 1..Len(v) : j - 1 # keep => w[j] = v[j]
       IN  DrawStep
              => /\ destroyed' = destroyed
                 /\ freed' = freed
                 /\ framebuffers' = framebuffers
                 /\ image_views' = image_views
                 /\ descriptor_set_layouts' = descriptor_set_layouts
                 /\ Same(in_flight_fences, in_flight_fences', image_i')
                 /\ Same(command_buffers, command_buffers', image_i')
                 /\ Same(images, images', image_i')
                 /\ Same(acquire_sem, acquire_sem', image_i')
                 /\ Same(image_available_semaphores, image_available_semaphores',
                         image_available')
                 /\ Same(render_finished_semaphores, render_finished_semaphores',
                         image_available')
                 /\ (pc = "idle" /\ pc' = "acquire")
                        => (in_flight_fences' = in_flight_fences
                                /\ command_buffers' = command_buffers)]_vars

\* A call in slot 1 on image 1 has returned after its submit while the fence
\* and command buffer of image 0 are as the frame before left them.
C32_Witness ==
    /\ pc = "returned"
    /\ image_available = 1
    /\ image_i = 1
    /\ Len(images) = 3
    /\ Len(command_buffers) = 3
    /\ Len(in_flight_fences) = FRAMES_IN_FLIGHT
    /\ in_flight_fences[2] = "unsignaled"
    /\ in_flight_fences[3] = "signaled"
    /\ command_buffers[2] = "pending"
    /\ command_buffers[3] = "ready"

----------------------------------------------------------------------------
\* Properties of the indices, the semaphore pairs and the acquired image.

\* C34: every image index an acquire returns is a valid index of the in-flight
\* fences (below FRAMES_IN_FLIGHT), of the command buffers and of the
\* framebuffers, so the call goes on to the fence wait and never panics on an
\* index.
C34_IndicesInBounds ==
    [][(proc = "running" /\ pc = "acquire" /\ pc' \in {"wait", "panic"})
          => /\ image_i' < FRAMES_IN_FLIGHT
             /\ InBounds(in_flight_fences, image_i')
             /\ InBounds(command_buffers, image_i')
             /\ image_i' < framebuffers
             /\ pc' = "wait"]_vars

\* C35: the image-available semaphore a call hands to acquire_image is
\* unsignaled, with no earlier acquire left to signal it and no earlier
\* submission left to wait on it; the render-finished semaphore a submission
\* is asked to signal is unsignaled, with no earlier present left to wait on
\* it; after successful and failed calls alike.
C35_StrictSignalWaitPairs ==
    [][/\ (proc = "running" /\ pc = "acquire" /\ pc' \in {"wait", "panic"})
              => /\ At(image_available_semaphores, image_available) = "unsignaled"
                 /\ \A i \in 1..Len(acquire_sem) : acquire_sem[i] # image_available
                 /\ \A k \in 1..Len(queue) :
                        queue[k].begun \/ queue[k].wait # image_available
       /\ (proc = "running" /\ pc = "wait" /\ Len(queue') > Len(queue))
              => /\ At(render_finished_semaphores, image_available) = "unsignaled"
                 /\ \A k \in 1..Len(presents) : presents[k].wait # image_available]_vars

\* C36: a draw_frame call that has returned, with an error or without, holds
\* no image that was acquired and not handed to a present.
C36_AcquiredImagePresented ==
    (proc = "running" /\ pc = "returned")
        => \A i \in 1..Len(images) : images[i] # "acquired"

----------------------------------------------------------------------------
\* Properties of the uploads the program makes.

----------------------------------------------------------------------------
\* The two draw_frame functions, each as a function of the state it is called
\* on, of what the device calls return and of the image index the acquire
\* yields: the device calls in order, the result, and the state left behind
\* (current_frame, fences, command buffers, the submission and the present
\* request handed to the queue).

\* What acquire_image returns, and the first call after it that fails, or how
\* present comes back when none does.
Outcomes ==
    [acquire : {"Ok", "Suboptimal", "Err"},
     then : {"wait_err", "reset_err", "vertices_err", "indices_err",
             "present_err", "present_suboptimal", "present_ok"}]

\* What a draw_frame call reads of the GfxState it is given.
CallState(frame) ==
    [current_frame |-> frame,
     slots |-> Len(image_available_semaphores),
     in_flight_fences |-> in_flight_fences,
     command_buffers |-> command_buffers]

\* utils.rs:18-21: QUAD_INDICES is [u16; 6].
QUAD_INDICES == 6

\* gfx_state.rs:43-46: QUAD_INDICES is [u16; 6].
GfxState_QUAD_INDICES == 6

\* gfx_state.rs:50: the module's own FRAMES_IN_FLIGHT.
GfxState_FRAMES_IN_FLIGHT == 3

\* drawing.rs:14-113
drawing_draw_frame(st, o, i) ==
    LET image_available_ == st.current_frame
        frame == IF st.current_frame < st.slots
                 THEN (st.current_frame + 1) % FRAMES_IN_FLIGHT
                 ELSE st.current_frame
        acquired == <<Op(IF o.acquire = "Suboptimal" THEN "acquire_image_suboptimal"
                                                      ELSE "acquire_image",
                         image_available_, i)>>
        awaited == acquired \o <<Op("wait_for_fence", i, 0)>>
        reset == awaited \o <<Op("reset_fence", i, 0)>>
        load(b) == <<Op("map_memory", b, 0), Op("copy", b, 0), Op("unmap_memory", b, 0)>>
        loaded == reset \o load(VERTICES) \o load(INDICES)
        recorded ==
            loaded \o
            <<Op("begin_primary", i, 0), Op("bind_graphics_pipeline", i, 0),
              Op("bind_vertex_buffers", i, VERTICES), Op("bind_index_buffer", i, INDICES),
              Op("push_graphics_constants", i, push_words),
              Op("begin_render_pass", i, i), Op("draw_indexed", QUAD_INDICES, 1),
              Op("end_render_pass", i, 0), Op("finish", i, 0)>>
        submitted == recorded \o <<Op("submit", i, image_available_)>>
        fences == Put(st.in_flight_fences, i, "unsignaled")
        Out(log, r, f, c, q, p) ==
            [ops |-> log, result |-> r, current_frame |-> frame, in_flight_fences |-> f,
             command_buffers |-> c, queue |-> q, presents |-> p]
        Stop(log, r, f) == Out(log, r, f, st.command_buffers, <<>>, <<>>)
        End(name, r, p) ==
            Out(submitted \o <<Op(name, i, image_available_)>>, r, fences,
                Put(st.command_buffers, i, "pending"),
                <<[cb |-> i, wait |-> image_available_, signal |-> image_available_,
                   fence |-> i, begun |-> FALSE]>>, p)
        request == <<[image |-> i, wait |-> image_available_]>>
    IN  IF st.current_frame >= st.slots
        THEN Stop(<<Op("index_image_available_semaphores", st.current_frame, 0)>>,
                  "panic: index out of bounds", st.in_flight_fences)
        ELSE IF o.acquire = "Err"
        THEN Stop(<<Op("acquire_image_failed", image_available_, 0)>>,
                  "Failed to acquire an image from the swapchain", st.in_flight_fences)
        ELSE IF i >= Len(st.in_flight_fences)
        THEN Stop(acquired \o <<Op("index_in_flight_fences", i, 0)>>,
                  "panic: index out of bounds", st.in_flight_fences)
        ELSE IF o.then = "wait_err"
        THEN Stop(acquired \o <<Op("wait_for_fence_failed", i, 0)>>,
                  "Failed to wait on the fence", st.in_flight_fences)
        ELSE IF o.then = "reset_err"
        THEN Stop(awaited \o <<Op("reset_fence_failed", i, 0)>>,
                  "Failed to reset the fence", st.in_flight_fences)
        ELSE IF o.then = "vertices_err"
        THEN Stop(reset \o <<Op("map_memory_failed", VERTICES, 0)>>,
                  "Failed to memory map buffer", fences)
        ELSE IF o.then = "indices_err"
        THEN Stop(reset \o load(VERTICES) \o <<Op("map_memory_failed", INDICES, 0)>>,
                  "Failed to memory map buffer", fences)
        ELSE IF i >= Len(st.command_buffers)
        THEN Stop(loaded \o <<Op("index_command_buffers", i, 0)>>,
                  "panic: index out of bounds", fences)
        ELSE IF o.then = "present_err"
        THEN End("present_failed", "Failed to present into the swapchain", <<>>)
        ELSE IF o.then = "present_suboptimal"
        THEN End("present_suboptimal", NoError, request)
        ELSE End("present", NoError, request)

\* A draw_frame that leaves current_frame as it found it.
draw_frame_without_advance(st, o, i) ==
    [drawing_draw_frame(st, o, i) EXCEPT !.current_frame = st.current_frame]

\* gfx_state.rs:286-360
GfxState_draw_frame(st, o, i) ==
    LET image_available_ == st.current_frame
        frame == IF st.current_frame < st.slots
                 THEN (st.current_frame + 1) % GfxState_FRAMES_IN_FLIGHT
                 ELSE st.current_frame
        acquired == <<Op(IF o.acquire = "Suboptimal" THEN "acquire_image_suboptimal"
                                                      ELSE "acquire_image",
                         image_available_, i)>>
        awaited == acquired \o <<Op("wait_for_fence", i, 0)>>
        reset == awaited \o <<Op("reset_fence", i, 0)>>
        load(b) == <<Op("map_memory", b, 0), Op("copy", b, 0), Op("unmap_memory", b, 0)>>
        loaded == reset \o load(VERTICES) \o load(INDICES)
        recorded ==
            loaded \o
            <<Op("begin_primary", i, 0), Op("bind_graphics_pipeline", i, 0),
              Op("bind_vertex_buffers", i, VERTICES), Op("bind_index_buffer", i, INDICES),
              Op("push_graphics_constants", i, push_words),
              Op("begin_render_pass", i, i), Op("draw_indexed", GfxState_QUAD_INDICES, 1),
              Op("end_render_pass", i, 0), Op("finish", i, 0)>>
        submitted == recorded \o <<Op("submit", i, image_available_)>>
        fences == Put(st.in_flight_fences, i, "unsignaled")
        Out(log, r, f, c, q, p) ==
            [ops |-> log, result |-> r, current_frame |-> frame, in_flight_fences |-> f,
             command_buffers |-> c, queue |-> q, presents |-> p]
        Stop(log, r, f) == Out(log, r, f, st.command_buffers, <<>>, <<>>)
        End(name, r, p) ==
            Out(submitted \o <<Op(name, i, image_available_)>>, r, fences,
                Put(st.command_buffers, i, "pending"),
                <<[cb |-> i, wait |-> image_available_, signal |-> image_available_,
                   fence |-> i, begun |-> FALSE]>>, p)
        request == <<[image |-> i, wait |-> image_available_]>>
    IN  IF st.current_frame >= st.slots
        THEN Stop(<<Op("index_image_available_semaphores", st.current_frame, 0)>>,
                  "panic: index out of bounds", st.in_flight_fences)
        ELSE IF o.acquire = "Err"
        THEN Stop(<<Op("acquire_image_failed", image_available_, 0)>>,
                  "Failed to acquire an image from the swapchain", st.in_flight_fences)
        ELSE IF i >= Len(st.in_flight_fences)
        THEN Stop(acquired \o <<Op("index_in_flight_fences", i, 0)>>,
                  "panic: index out of bounds", st.in_flight_fences)
        ELSE IF o.then = "wait_err"
        THEN Stop(acquired \o <<Op("wait_for_fence_failed", i, 0)>>,
                  "Failed to wait on the fence", st.in_flight_fences)
        ELSE IF o.then = "reset_err"
        THEN Stop(awaited \o <<Op("reset_fence_failed", i, 0)>>,
                  "Failed to reset the fence", st.in_flight_fences)
        ELSE IF o.then = "vertices_err"
        THEN Stop(reset \o <<Op("map_memory_failed", VERTICES, 0)>>,
                  "Failed to memory map buffer", fences)
        ELSE IF o.then = "indices_err"
        THEN Stop(reset \o load(VERTICES) \o <<Op("map_memory_failed", INDICES, 0)>>,
                  "Failed to memory map buffer", fences)
        ELSE IF i >= Len(st.command_buffers)
        THEN Stop(loaded \o <<Op("index_command_buffers", i, 0)>>,
                  "panic: index out of bounds", fences)
        ELSE IF o.then = "present_err"
        THEN End("present_failed", "Failed to present into the swapchain", <<>>)
        ELSE IF o.then = "present_suboptimal"
        THEN End("present_suboptimal", NoError, request)
        ELSE End("present", NoError, request)

\* C39: called on the same state, with the same image index and the same
\* outcomes of the device calls, drawing::draw_frame and GfxState::draw_frame
\* make the same device calls in the same order, return the same result and
\* leave the same state; and every call of the event loop that has returned or
\* panicked made the calls and has the result and the current_frame that both
\* functions give for one of the outcomes.
C39_SameDrawFrame ==
    /\ \A o \in Outcomes : \A i \in 0..(MaxImages - 1) :
           drawing_draw_frame(CallState(current_frame), o, i)
               = GfxState_draw_frame(CallState(current_frame), o, i)
    /\ (kind = "GfxState" /\ (pc = "returned" \/ (pc = "panic" /\ proc = "unwinding")))
           => \E o \in Outcomes :
                  LET st == CallState(image_available)
                      d == drawing_draw_frame(st, o, image_i)
                      g == GfxState_draw_frame(st, o, image_i)
                  IN  /\ d.ops = ops /\ g.ops = ops
                      /\ d.result = result /\ g.result = result
                      /\ d.current_frame = current_frame /\ g.current_frame = current_frame

\* A call in slot 1 on image 1 has returned Ok after the calls both functions
\* give for a frame in which nothing fails, and the fence and command buffer
\* of image 1 are as both leave them.
C39_Witness ==
    /\ pc = "returned"
    /\ result = NoError
    /\ image_available = 1
    /\ image_i = 1
    /\ Len(ops) = 20
    /\ LET o == [acquire |-> "Ok", then |-> "present_ok"]
           g == GfxState_draw_frame(CallState(1), o, 1)
       IN  /\ g.ops = ops
           /\ g.current_frame = current_frame
           /\ g.in_flight_fences[2] = in_flight_fences[2]
           /\ g.command_buffers[2] = command_buffers[2]
           /\ g.queue[1] = queue[Len(queue)]
           /\ g.presents[1] = presents[Len(presents)]

----------------------------------------------------------------------------
\* GfxState::new call by call (gfx_state.rs:131-284), with PipelineInfo::new
\* (pipeline_info.rs:14-143) and BufferInfo::new (buffer_info.rs:21-61) inside
\* it.  The specifications of the frame loop take a construction as one step;
\* SpecNew follows it from the swapchain on: ops is the log of the device calls
\* that succeeded, and a call that fails ends the construction with its error.

\* pipeline_info.rs:24-25: the two shader modules.
Vertex == 0
Fragment == 1

\* pipeline_info.rs:6-10, 138-142: the objects a PipelineInfo holds.
PipelineInfo_fields == {"descriptor_set_layout", "pipeline_layout", "graphics_pipeline"}

\* A PipelineInfo::new that leaves the shader modules alone.
PipelineInfo_new_ops_modules_kept ==
    <<Op("create_shader_module", Vertex, 0), Op("create_shader_module", Fragment, 0),
      Op("create_descriptor_set_layout", 0, 0), Op("create_pipeline_layout", 0, 0),
      Op("create_graphics_pipeline", 0, 0), Op("PipelineInfo", 0, 0)>>

\* pipeline_info.rs:21-142: the device calls of a PipelineInfo::new in which
\* none fails, ending with the Ok value being built.
PipelineInfo_new_ops ==
    <<Op("create_shader_module", Vertex, 0), Op("create_shader_module", Fragment, 0),
      Op("create_descriptor_set_layout", 0, 0), Op("create_pipeline_layout", 0, 0),
      Op("create_graphics_pipeline", 0, 0),
      Op("destroy_shader_module", Vertex, 0), Op("destroy_shader_module", Fragment, 0),
      Op("PipelineInfo", 0, 0)>>

\* buffer_info.rs:27-54
BufferInfo_new_ops(b) ==
    <<Op("create_buffer", b, 0), Op("allocate_memory", b, 0),
      Op("bind_buffer_memory", b, 0)>>

\* gfx_state.rs:144-271: the device calls of a GfxState::new in which none
\* fails, for a swapchain of n images.
GfxState_new_ops(n) ==
    <<Op("create_swapchain", n, 0), Op("create_render_pass", 0, 0)>>
        \o OpsEach("create_image_view", n)
        \o OpsEach("create_framebuffer", n)
        \o <<Op("create_command_pool", 0, 0)>>
        \o OpsEach("create_image_available", FRAMES_IN_FLIGHT)
        \o OpsEach("create_render_finished", FRAMES_IN_FLIGHT)
        \o OpsEach("create_fence", FRAMES_IN_FLIGHT)
        \o OpsEach("allocate_one", n)
        \o PipelineInfo_new_ops
        \o BufferInfo_new_ops(VERTICES)
        \o BufferInfo_new_ops(INDICES)

\* The message `?` returns when the call fails; calls without one return no
\* Result (allocate_one, destroy_shader_module).
ErrorOf ==
    [create_swapchain |-> "Could not create swapchain",
     create_render_pass |-> "Could not create render pass",
     create_image_view |-> "Could not create a backbuffer image view",
     create_framebuffer |-> "Could not create framebuffer",
     create_command_pool |-> "Could not create command pool",
     create_image_available |-> "Could not create semaphore",
     create_render_finished |-> "Could not create semaphore",
     create_fence |-> "Could not create fence",
     create_shader_module |-> "Failed to create shader module",
     create_descriptor_set_layout |-> "Failed to create a descriptor set layout",
     create_pipeline_layout |-> "Failed to create a pipeline layout",
     create_graphics_pipeline |-> "Failed to create graphics pipeline",
     create_buffer |-> "Failed to create a buffer for the vertices",
     allocate_memory |-> "Failed to allocate vertex buffer memory",
     bind_buffer_memory |-> "Failed to bind the buffer memory"]

\* pipeline_info.rs:22, 165-171: what ends compile_shader before its device call.
CompileErrors ==
    {"Failed to create shader compiler", "Could not read shader source file",
     "Failed to compile fragment program"}

\* The calls that leave an object on the device, and the one call of the
\* construction that takes an object away again.
Creates ==
    {"create_swapchain", "create_render_pass", "create_image_view", "create_framebuffer",
     "create_command_pool", "create_image_available", "create_render_finished",
     "create_fence", "allocate_one", "create_shader_module",
     "create_descriptor_set_layout", "create_pipeline_layout",
     "create_graphics_pipeline", "create_buffer", "allocate_memory"}

\* The objects of the log that no later call of the log has destroyed.
Live(log) ==
    {k \in 1..Len(log) :
        /\ log[k][1] \in Creates
        /\ ~(/\ log[k][1] = "create_shader_module"
             /\ \E j \in (k + 1)..Len(log) : log[j] = Op("destroy_shader_module", log[k][2], 0))}

\* The call GfxState::new makes next.
NextCall == GfxState_new_ops(ops[1][2])[Len(ops) + 1]

InNew == proc = "starting" /\ pc = "new" /\ Len(ops) < Len(GfxState_new_ops(ops[1][2]))

\* gfx_state.rs:144-146
create_swapchain_ok(n) ==
    /\ proc = "starting"
    /\ pc = "idle"
    /\ pc' = "new"
    /\ ops' = <<Op("create_swapchain", n, 0)>>
    /\ UNCHANGED <<kind, proc, locals, result, failures, gfxVars, gpuVars>>
    /\ UNCHANGED <<bufVars, selVars>>

create_swapchain_err ==
    /\ proc = "starting"
    /\ pc = "idle"
    /\ pc' = "failed"
    /\ result' = ErrorOf["create_swapchain"]
    /\ UNCHANGED <<kind, proc, locals, ops, failures, gfxVars, gpuVars>>
    /\ UNCHANGED <<bufVars, selVars>>

\* The next call succeeds.
new_call_ok ==
    /\ InNew
    /\ ops' = Append(ops, NextCall)
    /\ UNCHANGED <<kind, proc, pc, locals, result, failures, gfxVars, gpuVars>>
    /\ UNCHANGED <<bufVars, selVars>>

\* The next call fails: map_err names the error and `?` returns it, from
\* PipelineInfo::new or BufferInfo::new to GfxState::new and from there to the
\* caller.  No statement runs in between: no handle has a Drop that calls the
\* device, and a collect::<Result<Vec<_>, _>> (gfx_state.rs:208, 230, 416)
\* drops the handles gathered so far as plain values.
new_call_err ==
    /\ InNew
    /\ NextCall[1] \in DOMAIN ErrorOf
    /\ pc' = "failed"
    /\ result' = ErrorOf[NextCall[1]]
    /\ UNCHANGED <<kind, proc, locals, ops, failures, gfxVars, gpuVars>>
    /\ UNCHANGED <<bufVars, selVars>>

\* pipeline_info.rs:22-25, 158-171: the compiler cannot be made, or a shader
\* source cannot be read or compiled; with the fragment shader the vertex
\* module exists already.
compile_err ==
    /\ InNew
    /\ NextCall[1] = "create_shader_module"
    /\ pc' = "failed"
    /\ result' \in (IF NextCall[2] = Vertex
                    THEN CompileErrors
                    ELSE CompileErrors \ {"Failed to create shader compiler"})
    /\ UNCHANGED <<kind, proc, locals, ops, failures, gfxVars, gpuVars>>
    /\ UNCHANGED <<bufVars, selVars>>

\* buffer_info.rs:35-46 inside the construction: the buffer exists and no
\* memory type fits.
new_memory_type_err ==
    /\ InNew
    /\ NextCall[1] = "allocate_memory"
    /\ pc' = "failed"
    /\ result' = "Failed to find a memory type to support the vertex buffer"
    /\ UNCHANGED <<kind, proc, locals, ops, failures, gfxVars, gpuVars>>
    /\ UNCHANGED <<bufVars, selVars>>

\* gfx_state.rs:246-283: every call has succeeded and Ok(Self { .. }) is returned.
new_ok ==
    /\ proc = "starting"
    /\ pc = "new"
    /\ ops = GfxState_new_ops(ops[1][2])
    /\ pc' = "constructed"
    /\ result' = NoError
    /\ UNCHANGED <<kind, proc, locals, ops, failures, gfxVars, gpuVars>>
    /\ UNCHANGED <<bufVars, selVars>>

InitNew == Init

NextNew ==
    \/ \E n \in ImageCounts : create_swapchain_ok(n)
    \/ create_swapchain_err
    \/ new_call_ok
    \/ new_call_err
    \/ compile_err
    \/ new_memory_type_err
    \/ new_ok

SpecNew == InitNew /\ [][NextNew]_vars

----------------------------------------------------------------------------
\* Properties of construction.

\* C33: once PipelineInfo::new has built its Ok value, each of the two shader
\* modules has been created once and destroyed once, the destroys coming right
\* after the creation of the pipeline, vertex module first; no module is left
\* on the device; no call of the rest of the construction and no call of
\* PipelineInfo::free destroys one again; and a PipelineInfo holds no module.
C33_ShaderModulesDestroyedOnce ==
    LET count(name, m, upto) ==
            Cardinality({j \in 1..upto : ops[j] = Op(name, m, 0)})
        releases == PipelineInfo_free_ops([descriptor_set_layout |-> 1])
    IN  /\ "shader_module" \notin PipelineInfo_fields
        /\ \A j \in 1..Len(releases) : releases[j][1] # "destroy_shader_module"
        /\ \A k \in 1..Len(ops) :
               ops[k][1] = "PipelineInfo"
                   => /\ k > 3
                      /\ ops[k - 3][1] = "create_graphics_pipeline"
                      /\ ops[k - 2] = Op("destroy_shader_module", Vertex, 0)
                      /\ ops[k - 1] = Op("destroy_shader_module", Fragment, 0)
                      /\ \A m \in {Vertex, Fragment} :
                             /\ count("create_shader_module", m, k) = 1
                             /\ count("destroy_shader_module", m, k) = 1
                             /\ count("destroy_shader_module", m, Len(ops)) = 1
                      /\ \A j \in Live(ops) : ops[j][1] # "create_shader_module"

\* The construction has returned Ok for a swapchain of three images, the
\* pipeline built and both modules gone.
C33_Witness ==
    /\ pc = "constructed"
    /\ result = NoError
    /\ ops[1] = Op("create_swapchain", 3, 0)
    /\ \E k \in 1..Len(ops) : ops[k][1] = "PipelineInfo"
    /\ \E k \in 1..Len(ops) : ops[k] = Op("destroy_shader_module", Fragment, 0)

\* C37: a GfxState::new that has returned an error, from whichever step, has
\* left no object it created on the device, the shader modules and layouts of
\* PipelineInfo::new among them.
C37_AllOrNothing ==
    (pc = "failed") => Live(ops) = {}

====
